---- MODULE Spec2Model ----
(***************************************************************************)
(* Model of the gpio_lab controller (src/gpio_lab/src/main.c): a polling   *)
(* state machine that reads four button flags set by interrupt callbacks,  *)
(* drives four outputs (heartbeat, iv_pump, buzzer, error) and keeps a     *)
(* blink frequency for the pump/buzzer pair.                               *)
(*                                                                         *)
(* One iteration of the while(1) loop (a "tick") is modelled in three      *)
(* steps: RunState (current_time = k_uptime_get() and the switch on        *)
(* state), CheckFlags (the four flag checks, the bound check and the       *)
(* commit) and k_msleep.  The button callbacks run in interrupt context    *)
(* and may fire between any two of the steps, also while main sleeps.  A   *)
(* callback writes its own flag only, the state bodies never read a flag   *)
(* and CheckFlags reads and clears each flag once and never changes which  *)
(* interrupts are enabled, so a callback that runs inside a body or        *)
(* between two flag checks has the effect of the same callback before the  *)
(* step (its flag is still to be read) or after it (its flag was read).    *)
(*                                                                         *)
(* gpio_pin_set_dt and gpio_pin_toggle_dt on a pin that Init configured as *)
(* an output are taken to succeed (err = 0).  The configuration calls of   *)
(* Init may fail, and so may the re-configurations of the interrupts in    *)
(* the bodies of BlinkEntry, Error and Sleep: the code logs such a failure *)
(* and goes on, the interrupt stays as it was (at most MaxFaults failures  *)
(* in a run).                                                              *)
(*                                                                         *)
(* Spec runs the controller with iterations of TickTime ms, SpecFine with  *)
(* iterations of exactly the 10 ms of k_msleep(10), SpecPress with the     *)
(* runs of the callbacks counted.  The module also                         *)
(* models the two small programs src/led_button_tests/src/main.c           *)
(* (SpecButton) and src/led_freq_tests/src/main.c (SpecFreq) and the       *)
(* variant of the controller in                                            *)
(* src/gpio_tests/gpio-lab/application/src/main.c (SpecTests); each        *)
(* specification runs one program and leaves the others in their initial   *)
(* state.                                                                  *)
(***************************************************************************)
EXTENDS Integers, FiniteSets, Sequences, TLC

(***************************************************************************)
(* Program constants                                                       *)
(***************************************************************************)
HEARTBEAT_TOGGLE_INTERVAL_MS == 500
MS_PER_HZ == 1000
LED_BLINK_FREQ_HZ == 2
FREQ_UP_INC_HZ == 1
FREQ_DOWN_INC_HZ == 1
MAX_FREQ_HZ == 5
MIN_FREQ_HZ == 1
SLEEP_QUANTUM_MS == 10

\* enum states { INIT, BLINKING_ENTRY, BLINKING_RUN, SLEEP, RESET, ERROR }
INIT == 0
BLINKING_ENTRY == 1
BLINKING_RUN == 2
SLEEP == 3
RESET == 4
ERROR == 5
States == {INIT, BLINKING_ENTRY, BLINKING_RUN, SLEEP, RESET, ERROR}

\* return value of main when device_is_ready fails, and the negative errno
\* a failing gpio_pin_configure_dt returns (-EIO)
ERR_NOT_READY == -1
ERR_IO == -5

Buttons == {"sleep_button", "freq_up_button", "freq_down_button", "reset_button"}

(***************************************************************************)
(* Bounds of the model                                                     *)
(***************************************************************************)
\* latest uptime (ms) at which an iteration of the loop may still start
MaxTime == 1200
\* uptime (ms) at which main may be entered, besides 0
LateStart == 600
\* time (ms) from the start of one iteration to the start of the next:
\* k_msleep(10) makes it at least SLEEP_QUANTUM_MS, the statements of the
\* loop and preemption add to it
TickTime == 150
\* number of consumed frequency flags that are counted
MaxCount == 2
\* in the runs with 10 ms ticks: buttons are pressed from an uptime at which
\* main may be entered until PressUntil ms later
PressUntil == 0
\* number of runs of one callback between two evaluations of its flag that
\* are counted
MaxPresses == 2
\* in the runs with iterations of TickTime ms: main does not go to sleep
\* from this uptime (ms) on
MaxTickTime == 900
\* in the runs with counted presses at any time: main does not go to sleep
\* from this uptime (ms) on
MaxPressTime == 300
\* failed gpio_pin_interrupt_configure_dt calls of the state bodies in a run
MaxFaults == 1
\* led_button_tests: number of button presses delivered while main runs
MaxButtonPresses == 5
\* led_freq_tests: longest time (ms) by which k_msleep(BLINK_INTERVAL_MS)
\* returns late
MaxOverrun == 60

\* gpio_tests variant: latest uptime (ms) at which an iteration of its loop
\* may still start
MaxTestsTime == 900
\* gpio_tests variant: number of runs of the button callbacks
MaxTestsPresses == 4

StartTimes == {0, LateStart}
TickDurations == {d \in {TickTime} : d >= SLEEP_QUANTUM_MS}

(***************************************************************************)
(* The setup calls of case INIT in program order.  fatal: main returns     *)
(* when the call fails.                                                    *)
(***************************************************************************)
SetupSteps ==
  << [call |-> "device_is_ready",   arg |-> "sleep_button",     fatal |-> TRUE],
     [call |-> "configure_input",   arg |-> "sleep_button",     fatal |-> TRUE],
     [call |-> "configure_input",   arg |-> "freq_up_button",   fatal |-> TRUE],
     [call |-> "configure_input",   arg |-> "freq_down_button", fatal |-> TRUE],
     [call |-> "configure_input",   arg |-> "reset_button",     fatal |-> TRUE],
     [call |-> "interrupt_configure", arg |-> "sleep_button",     fatal |-> FALSE],
     [call |-> "add_callback",        arg |-> "sleep_button",     fatal |-> FALSE],
     [call |-> "interrupt_configure", arg |-> "freq_up_button",   fatal |-> FALSE],
     [call |-> "add_callback",        arg |-> "freq_up_button",   fatal |-> FALSE],
     [call |-> "interrupt_configure", arg |-> "freq_down_button", fatal |-> FALSE],
     [call |-> "add_callback",        arg |-> "freq_down_button", fatal |-> FALSE],
     [call |-> "interrupt_configure", arg |-> "reset_button",     fatal |-> FALSE],
     [call |-> "add_callback",        arg |-> "reset_button",     fatal |-> FALSE],
     [call |-> "configure_output",  arg |-> "heartbeat_led",    fatal |-> TRUE],
     [call |-> "configure_output",  arg |-> "iv_pump_led",      fatal |-> TRUE],
     [call |-> "configure_output",  arg |-> "buzzer_led",       fatal |-> TRUE],
     [call |-> "configure_output",  arg |-> "error_led",        fatal |-> TRUE] >>

\* initial level of an output pin: GPIO_OUTPUT_ACTIVE / GPIO_OUTPUT_INACTIVE
OutputInitial(led) == led \in {"heartbeat_led", "iv_pump_led"}

VARIABLES
  state, next_state,            \* int state, next_state
  current_time,                 \* int64_t current_time
  action_led_hz,                \* int action_led_hz
  sleep_button_event, up_button_event, down_button_event, reset_button_event,
  heartbeat_led_status,         \* struct led {toggle_time, illuminated}
  iv_pump_led_status,
  pin,                          \* logical level of the four output pins
  irq,                          \* per button: edge interrupt enabled
  cb,                           \* per button: callback registered
  uptime,                       \* k_uptime_get()
  pc,                           \* "run", "buttons", "sleep" or "done"
  ret,                          \* value main returned with (pc = "done")
  faults,                       \* failed interrupt reconfigurations so far
  h,                            \* history of the run, read by the properties only
  led_button,                   \* the led_button_tests program
  led_freq,                     \* the led_freq_tests program
  gpio_tests                    \* the gpio_tests variant of the controller

\* the variables of the gpio_lab controller
gpio_lab == << state, next_state, current_time, action_led_hz,
               sleep_button_event, up_button_event, down_button_event,
               reset_button_event, heartbeat_led_status, iv_pump_led_status,
               pin, irq, cb, uptime, pc, ret, faults, h >>

vars == << gpio_lab, led_button, led_freq, gpio_tests >>

flags == << sleep_button_event, up_button_event, down_button_event,
            reset_button_event >>

(***************************************************************************)
(* Pure parts of the loop                                                  *)
(***************************************************************************)
\* C integer division (truncation towards zero), b # 0
CDiv(a, b) ==
  IF (a >= 0) = (b > 0)
    THEN (IF a >= 0 THEN a ELSE -a) \div (IF b > 0 THEN b ELSE -b)
    ELSE -((IF a >= 0 THEN a ELSE -a) \div (IF b > 0 THEN b ELSE -b))

\* heartbeat(): the condition of the if
HeartbeatDue(ct, status) ==
  ct - status.toggle_time > HEARTBEAT_TOGGLE_INTERVAL_MS

\* mutant: heartbeat() toggles without recording the time of the toggle
heartbeat_KeepsToggleTime(ct, status, level) ==
  IF HeartbeatDue(ct, status)
    THEN [status |-> [status EXCEPT !.illuminated = ~status.illuminated],
          level  |-> ~level]
    ELSE [status |-> status, level |-> level]

\* mutant: heartbeat() toggles the pin and records the time, not the flag
heartbeat_PinOnly(ct, status, level) ==
  IF HeartbeatDue(ct, status)
    THEN [status |-> [toggle_time |-> ct, illuminated |-> status.illuminated],
          level  |-> ~level]
    ELSE [status |-> status, level |-> level]

\* heartbeat(): the blinker record and the pin level it leaves
heartbeat(ct, status, level) ==
  IF HeartbeatDue(ct, status)
    THEN [status |-> [toggle_time |-> ct, illuminated |-> ~status.illuminated],
          level  |-> ~level]
    ELSE [status |-> status, level |-> level]

\* actionLEDs(): target_time_passed
TargetTimePassed(hz) == CDiv(MS_PER_HZ, hz * 2)

\* actionLEDs(): the condition of the if
ActionDue(ct, status, hz) == ct - status.toggle_time > TargetTimePassed(hz)

\* mutant: actionLEDs() toggles the pump only
actionLEDs_PumpOnly(ct, status, hz, pump, buzzer) ==
  IF ActionDue(ct, status, hz)
    THEN [status |-> [toggle_time |-> ct, illuminated |-> ~status.illuminated],
          pump   |-> ~pump,
          buzzer |-> buzzer]
    ELSE [status |-> status, pump |-> pump, buzzer |-> buzzer]

\* actionLEDs(): the blinker record and the two pin levels it leaves
actionLEDs(ct, status, hz, pump, buzzer) ==
  IF ActionDue(ct, status, hz)
    THEN [status |-> [toggle_time |-> ct, illuminated |-> ~status.illuminated],
          pump   |-> ~pump,
          buzzer |-> ~buzzer]
    ELSE [status |-> status, pump |-> pump, buzzer |-> buzzer]

\* mutant: the sleep flag selects Sleep in every state
SleepCheck_AlwaysSleep(ev, st, nxt) == IF ev THEN SLEEP ELSE nxt

\* mutant: the sleep flag selects Error when the state is Sleep
SleepCheck_ToError(ev, st, nxt) ==
  IF ev THEN (IF st = SLEEP THEN ERROR ELSE SLEEP) ELSE nxt

\* if (sleep_button_event) next_state = state == SLEEP ? BLINKING_ENTRY : SLEEP
SleepCheck(ev, st, nxt) ==
  IF ev THEN (IF st = SLEEP THEN BLINKING_ENTRY ELSE SLEEP) ELSE nxt

\* mutant: a set frequency-up flag is applied twice
FreqUpCheck_Twice(ev, hz) ==
  IF ev THEN hz + FREQ_UP_INC_HZ + FREQ_UP_INC_HZ ELSE hz

\* if (up_button_event) action_led_hz += FREQ_UP_INC_HZ
FreqUpCheck(ev, hz) == IF ev THEN hz + FREQ_UP_INC_HZ ELSE hz

\* mutant: the frequency-down flag raises the frequency
FreqDownCheck_Adds(ev, hz) == IF ev THEN hz + FREQ_DOWN_INC_HZ ELSE hz

\* if (down_button_event) action_led_hz -= FREQ_DOWN_INC_HZ
FreqDownCheck(ev, hz) == IF ev THEN hz - FREQ_DOWN_INC_HZ ELSE hz

\* mutant: the two ends of the range count as out of range
OutOfRange_Exclusive(hz) == hz <= MIN_FREQ_HZ \/ hz >= MAX_FREQ_HZ

\* mutant: only a frequency below the range counts as out of range
OutOfRange_OnlyBelow(hz) == hz < MIN_FREQ_HZ

\* action_led_hz < MIN_FREQ_HZ || action_led_hz > MAX_FREQ_HZ
OutOfRange(hz) == hz < MIN_FREQ_HZ \/ hz > MAX_FREQ_HZ

\* if (out of range && state != ERROR) next_state = ERROR
BoundCheck(hz, st, nxt) ==
  IF OutOfRange(hz) /\ st # ERROR THEN ERROR ELSE nxt

\* mutant: the reset flag selects Init
ResetCheck_ToInit(ev, nxt) == IF ev THEN INIT ELSE nxt

\* if (reset_button_event) next_state = RESET
ResetCheck(ev, nxt) == IF ev THEN RESET ELSE nxt

\* mutant: the frequency-down check is the else branch of the frequency-up
\* check
HzAfterButtons_ElseIf(hz, up, down) ==
  IF up THEN FreqUpCheck(up, hz) ELSE FreqDownCheck(down, hz)

\* action_led_hz after the frequency-up and frequency-down checks
HzAfterButtons(hz, up, down) == FreqDownCheck(down, FreqUpCheck(up, hz))

\* mutant: the sleep check is made after the bound check
NextAfterButtons_SleepAfterBound(st, nxt, hz, sl, up, down, rs) ==
  ResetCheck(rs, SleepCheck(sl, st,
                            BoundCheck(HzAfterButtons(hz, up, down), st, nxt)))

\* mutant: the reset check is made before the bound check
NextAfterButtons_ResetBeforeBound(st, nxt, hz, sl, up, down, rs) ==
  BoundCheck(HzAfterButtons(hz, up, down), st,
             ResetCheck(rs, SleepCheck(sl, st, nxt)))

\* mutant: the bound check is also made between the frequency-up and the
\* frequency-down check
NextAfterButtons_BoundAfterUp(st, nxt, hz, sl, up, down, rs) ==
  ResetCheck(rs, BoundCheck(HzAfterButtons(hz, up, down), st,
                            BoundCheck(FreqUpCheck(up, hz), st,
                                       SleepCheck(sl, st, nxt))))

\* mutant: the bound check is made before the frequency flags are applied
NextAfterButtons_BoundBeforeFreq(st, nxt, hz, sl, up, down, rs) ==
  ResetCheck(rs, BoundCheck(hz, st, SleepCheck(sl, st, nxt)))

\* next_state after the four checks, in program order
NextAfterButtons(st, nxt, hz, sl, up, down, rs) ==
  ResetCheck(rs, BoundCheck(HzAfterButtons(hz, up, down), st,
                            SleepCheck(sl, st, nxt)))


(***************************************************************************)
(* case INIT: which setup calls took effect when call number f fails       *)
(* (f = 0: none fails).  A failing fatal call returns from main; a failing *)
(* interrupt_configure or add_callback is only logged.                     *)
(***************************************************************************)
SetupFatal(f) == f # 0 /\ SetupSteps[f].fatal

SetupDone(f) ==
  {i \in 1..Len(SetupSteps) : i # f /\ (SetupFatal(f) => i < f)}

SetupDid(f, call, arg) ==
  \E i \in SetupDone(f) : SetupSteps[i].call = call /\ SetupSteps[i].arg = arg

SetupReturn(f) == IF f = 1 THEN ERR_NOT_READY ELSE ERR_IO

\* mutant: case INIT goes through the entry state
InitNext_Entry == BLINKING_ENTRY

\* next_state = BLINKING_RUN at the end of case INIT
InitNext == BLINKING_RUN

(***************************************************************************)
(* History of the run.  These fields are written by the steps below and    *)
(* read by the properties only; no guard and no program variable depends   *)
(* on them.                                                                *)
(*   rst      the latest tick that consumed the reset flag: n = number of  *)
(*            ticks completed since then in which no flag was consumed     *)
(*            (counted up to 2; -1: no such tick, or a flag was consumed   *)
(*            since), st and hz = the state that tick ran in and           *)
(*            action_led_hz at its end                                     *)
(*   counting no Reset body has run and at most MaxCount flags of each     *)
(*            kind were consumed                                           *)
(*   ups, downs  frequency-up / frequency-down flags consumed so far       *)
(*   sleep_hz action_led_hz at the end of the tick that entered Sleep from *)
(*            another state, kept until the tick after the one that left   *)
(*            Sleep                                                        *)
(*   sleep_pump  iv_pump_led_status at the end of the tick that entered    *)
(*            Sleep from another state, while the state is Sleep           *)
(*   last     the latest completed tick: the state it ran in (st), the     *)
(*            flags it consumed; st = -1 before the first tick completes;  *)
(*            many = the buttons whose callback ran more than once before  *)
(*            that tick evaluated the flag (counted runs only)             *)
(*   hb_at    current_time of the latest body past Init that changed the   *)
(*            level of the heartbeat pin (-1: none yet)                    *)
(*   hb_gap   time between the latest two such changes (0: fewer than two) *)
(*   presses  per button the number of runs of its callback since its flag *)
(*            was last evaluated, counted up to MaxPresses; kept only in   *)
(*            the runs that start with HistCounted                         *)
(***************************************************************************)
NoTick == [st |-> -1, sl |-> FALSE, up |-> FALSE, down |-> FALSE,
           rs |-> FALSE, many |-> {}]

NoReset == [n |-> -1, st |-> -1, hz |-> 0]

NoBlinker == [toggle_time |-> -1, illuminated |-> FALSE]

NotCounted == [b \in Buttons |-> -1]

NoPresses == [b \in Buttons |-> 0]

HistInit == [rst |-> NoReset, counting |-> TRUE, ups |-> 0, downs |-> 0,
             sleep_hz |-> 0, sleep_pump |-> NoBlinker, last |-> NoTick,
             hb_at |-> -1, hb_gap |-> 0, presses |-> NotCounted]

HistCounted == [HistInit EXCEPT !.presses = NoPresses]

HistRun(hist, st, ct, before, after) ==
  LET r == IF st = RESET
             THEN [hist EXCEPT !.counting = FALSE, !.ups = 0, !.downs = 0]
             ELSE hist
  IN IF st # INIT /\ before # after
       THEN [r EXCEPT !.hb_at = ct,
                      !.hb_gap = IF hist.hb_at < 0 THEN 0 ELSE ct - hist.hb_at]
       ELSE r

HistPress(hist, b) ==
  IF hist.presses[b] < 0 \/ hist.presses[b] >= MaxPresses THEN hist
  ELSE [hist EXCEPT !.presses[b] = hist.presses[b] + 1]

HistButtons(hist, st, nst, nhz, pump, sl, up, down, rs) ==
  LET u == hist.ups + (IF up THEN 1 ELSE 0)
      d == hist.downs + (IF down THEN 1 ELSE 0)
      c == hist.counting /\ u <= MaxCount /\ d <= MaxCount
  IN [rst      |-> IF rs THEN [n |-> 0, st |-> st, hz |-> nhz]
                   ELSE IF sl \/ up \/ down \/ hist.rst.n < 0 THEN NoReset
                   ELSE IF hist.rst.n < 2
                     THEN [hist.rst EXCEPT !.n = hist.rst.n + 1]
                   ELSE hist.rst,
      counting |-> c,
      ups      |-> IF c THEN u ELSE 0,
      downs    |-> IF c THEN d ELSE 0,
      sleep_hz |-> IF nst = SLEEP /\ st # SLEEP THEN nhz
                   ELSE IF nst = SLEEP \/ st = SLEEP THEN hist.sleep_hz
                   ELSE 0,
      sleep_pump |-> IF nst # SLEEP THEN NoBlinker
                     ELSE IF st # SLEEP THEN pump ELSE hist.sleep_pump,
      last     |-> [st |-> st, sl |-> sl, up |-> up, down |-> down,
                    rs |-> rs,
                    many |-> {b \in Buttons : hist.presses[b] > 1}],
      hb_at    |-> hist.hb_at,
      hb_gap   |-> hist.hb_gap,
      presses  |-> IF hist.presses = NotCounted THEN NotCounted
                   ELSE NoPresses]

(***************************************************************************)
(* The other two programs (src/led_button_tests/src/main.c and             *)
(* src/led_freq_tests/src/main.c): their constants and their state before  *)
(* main is entered.  Each is a record: the globals and locals of the       *)
(* program, the position of main (pc), the value main returned (ret), the  *)
(* level of the LED pin (led) and history fields read by the properties    *)
(* only.                                                                   *)
(***************************************************************************)
LED_ON == 1
LED_OFF == 0

\* BIT(0), as the set of the bit numbers that are set
BUTTON_EVENT == {0}
\* the bits of the uint32_t of a k_event
EventBits == 0..31

\* return values of init() of the two programs
ENODEV == 19
EIO == 5

BLINK_INTERVAL_MS == 500
BLINK_DURATION_MS == 5000

\* led_button_tests.  step: the call of init() that is next; round: 1
\* before the first if block is left, then 2;
\* irq, cb: edge interrupt enabled, callback registered; history: presses =
\* runs of button_test_callback, toggles = assignments LED_STATE = !LED_STATE
LedButtonInit ==
  [pc |-> "init", step |-> 1, round |-> 1, LED_STATE |-> LED_OFF,
   button_events |-> {},
   events |-> {}, irq |-> FALSE, cb |-> FALSE, led |-> LED_OFF, ret |-> 0,
   presses |-> 0, toggles |-> 0]

\* led_freq_tests.  history: toggles = assignments LED_STATE = !LED_STATE,
\* toggled_at = uptime of the latest one (-1: none), gap = time between the
\* latest two (0: fewer than two)
LedFreqInit ==
  [pc |-> "init", LED_STATE |-> LED_OFF, led |-> LED_OFF, uptime |-> 0,
   start_ms |-> 0, elapsed_ms |-> 0, ret |-> 0,
   toggles |-> 0, toggled_at |-> -1, gap |-> 0]

(***************************************************************************)
(* The gpio_tests variant (src/gpio_tests/gpio-lab/application/src/main.c) *)
(***************************************************************************)
ACTION_BUTTON_MIN_THRESHOLD_HZ == 1
ACTION_BUTTON_MAX_THRESHOLD_HZ == 5

\* enum states { INIT, DEFAULT_SETUP, AWAKE_ENTRY, AWAKE_RUN, AWAKE_EXIT,
\* SLEEP, ERROR } of the variant (T_ where the name is taken above)
T_INIT == 0
DEFAULT_SETUP == 1
AWAKE_ENTRY == 2
AWAKE_RUN == 3
AWAKE_EXIT == 4
T_SLEEP == 5
T_ERROR == 6

\* the globals of the variant; events: the four *_button_event flags;
\* irq, cb: edge interrupt enabled, callback registered; pin: level of the
\* output pins; history, read by the properties only: presses = runs of a
\* callback, body_rs = the body of this iteration consumed the reset flag,
\* last = the state after the body of the latest completed iteration and
\* the flags that iteration consumed
GpioTestsInit ==
  [pc |-> "run", ret |-> 0, state |-> T_INIT,
   last_action_led_toggle_freq |-> LED_BLINK_FREQ_HZ,
   sleep_button_pressed |-> 0,
   events |-> [b \in Buttons |-> FALSE],
   irq |-> [b \in Buttons |-> FALSE],
   cb |-> [b \in Buttons |-> FALSE],
   pin |-> [heartbeat_led |-> FALSE, iv_pump_led |-> FALSE,
            buzzer_led |-> FALSE, error_led |-> FALSE],
   heartbeat_led_status |-> [toggle_time |-> 0, illuminated |-> FALSE],
   iv_pump_led_status |-> [toggle_time |-> 0, illuminated |-> TRUE],
   buzzer_led_status |-> [toggle_time |-> 0, illuminated |-> FALSE],
   uptime |-> 0, current_time |-> 0,
   presses |-> 0, body_rs |-> FALSE,
   last |-> [st |-> -1, events |-> {}]]

(***************************************************************************)
(* Initial state: the initialisers of the globals; main is entered at some *)
(* uptime, no pin is configured and no interrupt is enabled.               *)
(***************************************************************************)
InitProgram ==
  /\ state = INIT
  /\ next_state = INIT
  /\ current_time = 0
  /\ action_led_hz = LED_BLINK_FREQ_HZ
  /\ sleep_button_event = FALSE
  /\ up_button_event = FALSE
  /\ down_button_event = FALSE
  /\ reset_button_event = FALSE
  /\ heartbeat_led_status = [toggle_time |-> 0, illuminated |-> TRUE]
  /\ iv_pump_led_status = [toggle_time |-> 0, illuminated |-> TRUE]
  /\ pin = [heartbeat_led |-> FALSE, iv_pump_led |-> FALSE,
            buzzer_led |-> FALSE, error_led |-> FALSE]
  /\ irq = [b \in Buttons |-> FALSE]
  /\ cb = [b \in Buttons |-> FALSE]
  /\ uptime \in StartTimes
  /\ pc = "run"
  /\ ret = 0
  /\ faults = 0

Init ==
  /\ InitProgram
  /\ h = HistInit
  /\ led_button = LedButtonInit
  /\ led_freq = LedFreqInit
  /\ gpio_tests = GpioTestsInit

(***************************************************************************)
(* gpio_pin_interrupt_configure_dt in a state body: the calls for the      *)
(* buttons bs with GPIO_INT_EDGE_TO_ACTIVE (level TRUE) or                 *)
(* GPIO_INT_DISABLE (level FALSE).  A call that fails is logged and the    *)
(* body goes on: the interrupt of that button stays as it was.  ok is the  *)
(* set of buttons whose call succeeds.                                     *)
(***************************************************************************)
RateButtons == {"sleep_button", "freq_up_button", "freq_down_button"}
FreqButtons == {"freq_up_button", "freq_down_button"}

InterruptConfigure(old, bs, ok, level) ==
  [b \in Buttons |-> IF b \in bs /\ b \in ok THEN level ELSE old[b]]

\* the outcomes of the calls for bs that keep to the bound on failures
Succeeding(bs) ==
  {ok \in SUBSET bs : faults + Cardinality(bs \ ok) <= MaxFaults}

(***************************************************************************)
(* First half of an iteration: current_time = k_uptime_get() and the       *)
(* switch on state.  RunState is the part all cases share; there is one    *)
(* action per case.                                                        *)
(***************************************************************************)
RunState ==
  /\ pc = "run"
  /\ uptime <= MaxTime
  /\ current_time' = uptime
  /\ UNCHANGED << state, flags, uptime, led_button, led_freq, gpio_tests >>

\* case INIT when setup call f fails (f = 0: all succeed)
CaseInit(f) ==
  /\ RunState
  /\ state = INIT
  /\ irq' = [b \in Buttons |-> SetupDid(f, "interrupt_configure", b)]
  /\ cb' = [b \in Buttons |-> SetupDid(f, "add_callback", b)]
  /\ pin' = [l \in DOMAIN pin |->
               IF SetupDid(f, "configure_output", l) THEN OutputInitial(l)
               ELSE pin[l]]
  /\ IF SetupFatal(f)
       THEN /\ pc' = "done"
            /\ ret' = SetupReturn(f)
            /\ next_state' = next_state
       ELSE /\ pc' = "buttons"
            /\ ret' = ret
            /\ next_state' = InitNext
  /\ UNCHANGED << action_led_hz, heartbeat_led_status, iv_pump_led_status,
                  faults >>
  /\ h' = HistRun(h, state, current_time', pin.heartbeat_led,
               pin'.heartbeat_led)

\* mutant: the BlinkEntry body switches the pump on and the buzzer off
CaseBlinkingEntry_PumpOn ==
  /\ RunState
  /\ state = BLINKING_ENTRY
  /\ LET hb == heartbeat(current_time', heartbeat_led_status, pin.heartbeat_led)
     IN /\ heartbeat_led_status' = hb.status
        /\ pin' = [heartbeat_led |-> hb.level,
                   iv_pump_led   |-> TRUE,
                   buzzer_led    |-> FALSE,
                   error_led     |-> FALSE]
  /\ \E ok \in Succeeding(RateButtons) :
       /\ irq' = InterruptConfigure(irq, RateButtons, ok, TRUE)
       /\ faults' = faults + Cardinality(RateButtons \ ok)
  /\ next_state' = BLINKING_RUN
  /\ pc' = "buttons"
  /\ UNCHANGED << action_led_hz, iv_pump_led_status, cb, ret >>
  /\ h' = HistRun(h, state, current_time', pin.heartbeat_led,
               pin'.heartbeat_led)

\* mutant: the BlinkEntry body leaves the error output as it is
CaseBlinkingEntry_KeepsError ==
  /\ RunState
  /\ state = BLINKING_ENTRY
  /\ LET hb == heartbeat(current_time', heartbeat_led_status, pin.heartbeat_led)
     IN /\ heartbeat_led_status' = hb.status
        /\ pin' = [heartbeat_led |-> hb.level,
                   iv_pump_led   |-> iv_pump_led_status.illuminated,
                   buzzer_led    |-> ~iv_pump_led_status.illuminated,
                   error_led     |-> pin.error_led]
  /\ \E ok \in Succeeding(RateButtons) :
       /\ irq' = InterruptConfigure(irq, RateButtons, ok, TRUE)
       /\ faults' = faults + Cardinality(RateButtons \ ok)
  /\ next_state' = BLINKING_RUN
  /\ pc' = "buttons"
  /\ UNCHANGED << action_led_hz, iv_pump_led_status, cb, ret >>
  /\ h' = HistRun(h, state, current_time', pin.heartbeat_led,
               pin'.heartbeat_led)

CaseBlinkingEntry ==
  /\ RunState
  /\ state = BLINKING_ENTRY
  /\ LET hb == heartbeat(current_time', heartbeat_led_status, pin.heartbeat_led)
     IN /\ heartbeat_led_status' = hb.status
        /\ pin' = [heartbeat_led |-> hb.level,
                   iv_pump_led   |-> iv_pump_led_status.illuminated,
                   buzzer_led    |-> ~iv_pump_led_status.illuminated,
                   error_led     |-> FALSE]
  /\ \E ok \in Succeeding(RateButtons) :
       /\ irq' = InterruptConfigure(irq, RateButtons, ok, TRUE)
       /\ faults' = faults + Cardinality(RateButtons \ ok)
  /\ next_state' = BLINKING_RUN
  /\ pc' = "buttons"
  /\ UNCHANGED << action_led_hz, iv_pump_led_status, cb, ret >>
  /\ h' = HistRun(h, state, current_time', pin.heartbeat_led,
               pin'.heartbeat_led)

CaseBlinkingRun ==
  /\ RunState
  /\ state = BLINKING_RUN
  /\ LET hb == heartbeat(current_time', heartbeat_led_status, pin.heartbeat_led)
         al == actionLEDs(current_time', iv_pump_led_status, action_led_hz,
                          pin.iv_pump_led, pin.buzzer_led)
     IN /\ heartbeat_led_status' = hb.status
        /\ iv_pump_led_status' = al.status
        /\ pin' = [pin EXCEPT !.heartbeat_led = hb.level,
                              !.iv_pump_led = al.pump,
                              !.buzzer_led = al.buzzer]
  /\ pc' = "buttons"
  /\ UNCHANGED << next_state, action_led_hz, irq, cb, ret, faults >>
  /\ h' = HistRun(h, state, current_time', pin.heartbeat_led,
               pin'.heartbeat_led)

\* mutant: the Error body does not call heartbeat()
CaseError_NoHeartbeat ==
  /\ RunState
  /\ state = ERROR
  /\ pin' = [heartbeat_led |-> pin.heartbeat_led,
             iv_pump_led   |-> FALSE,
             buzzer_led    |-> FALSE,
             error_led     |-> TRUE]
  /\ \E ok \in Succeeding(RateButtons) :
       /\ irq' = InterruptConfigure(irq, RateButtons, ok, FALSE)
       /\ faults' = faults + Cardinality(RateButtons \ ok)
  /\ iv_pump_led_status' = [iv_pump_led_status EXCEPT !.illuminated = FALSE]
  /\ next_state' = ERROR
  /\ pc' = "buttons"
  /\ UNCHANGED << action_led_hz, heartbeat_led_status, cb, ret >>
  /\ h' = HistRun(h, state, current_time', pin.heartbeat_led,
               pin'.heartbeat_led)

CaseError ==
  /\ RunState
  /\ state = ERROR
  /\ LET hb == heartbeat(current_time', heartbeat_led_status, pin.heartbeat_led)
     IN /\ heartbeat_led_status' = hb.status
        /\ pin' = [heartbeat_led |-> hb.level,
                   iv_pump_led   |-> FALSE,
                   buzzer_led    |-> FALSE,
                   error_led     |-> TRUE]
  /\ \E ok \in Succeeding(RateButtons) :
       /\ irq' = InterruptConfigure(irq, RateButtons, ok, FALSE)
       /\ faults' = faults + Cardinality(RateButtons \ ok)
  /\ iv_pump_led_status' = [iv_pump_led_status EXCEPT !.illuminated = FALSE]
  /\ next_state' = ERROR
  /\ pc' = "buttons"
  /\ UNCHANGED << action_led_hz, cb, ret >>
  /\ h' = HistRun(h, state, current_time', pin.heartbeat_led,
               pin'.heartbeat_led)

\* mutant: the Reset body leaves action_led_hz as it is
CaseReset_KeepsHz ==
  /\ RunState
  /\ state = RESET
  /\ LET hb == heartbeat(current_time', heartbeat_led_status, pin.heartbeat_led)
     IN /\ heartbeat_led_status' = hb.status
        /\ pin' = [pin EXCEPT !.heartbeat_led = hb.level]
  /\ next_state' = BLINKING_ENTRY
  /\ pc' = "buttons"
  /\ UNCHANGED << action_led_hz, iv_pump_led_status, irq, cb, ret, faults >>
  /\ h' = HistRun(h, state, current_time', pin.heartbeat_led,
               pin'.heartbeat_led)

CaseReset ==
  /\ RunState
  /\ state = RESET
  /\ LET hb == heartbeat(current_time', heartbeat_led_status, pin.heartbeat_led)
     IN /\ heartbeat_led_status' = hb.status
        /\ pin' = [pin EXCEPT !.heartbeat_led = hb.level]
  /\ action_led_hz' = LED_BLINK_FREQ_HZ
  /\ next_state' = BLINKING_ENTRY
  /\ pc' = "buttons"
  /\ UNCHANGED << iv_pump_led_status, irq, cb, ret, faults >>
  /\ h' = HistRun(h, state, current_time', pin.heartbeat_led,
               pin'.heartbeat_led)

\* mutant: the Sleep body selects BlinkEntry
CaseSleep_Wakes ==
  /\ RunState
  /\ state = SLEEP
  /\ LET hb == heartbeat(current_time', heartbeat_led_status, pin.heartbeat_led)
     IN /\ heartbeat_led_status' = hb.status
        /\ pin' = [pin EXCEPT !.heartbeat_led = hb.level,
                              !.iv_pump_led = FALSE,
                              !.buzzer_led = FALSE]
  /\ \E ok \in Succeeding(FreqButtons) :
       /\ irq' = InterruptConfigure(irq, FreqButtons, ok, FALSE)
       /\ faults' = faults + Cardinality(FreqButtons \ ok)
  /\ next_state' = BLINKING_ENTRY
  /\ pc' = "buttons"
  /\ UNCHANGED << action_led_hz, iv_pump_led_status, cb, ret >>
  /\ h' = HistRun(h, state, current_time', pin.heartbeat_led,
               pin'.heartbeat_led)

CaseSleep ==
  /\ RunState
  /\ state = SLEEP
  /\ LET hb == heartbeat(current_time', heartbeat_led_status, pin.heartbeat_led)
     IN /\ heartbeat_led_status' = hb.status
        /\ pin' = [pin EXCEPT !.heartbeat_led = hb.level,
                              !.iv_pump_led = FALSE,
                              !.buzzer_led = FALSE]
  /\ \E ok \in Succeeding(FreqButtons) :
       /\ irq' = InterruptConfigure(irq, FreqButtons, ok, FALSE)
       /\ faults' = faults + Cardinality(FreqButtons \ ok)
  /\ next_state' = SLEEP
  /\ pc' = "buttons"
  /\ UNCHANGED << action_led_hz, iv_pump_led_status, cb, ret >>
  /\ h' = HistRun(h, state, current_time', pin.heartbeat_led,
               pin'.heartbeat_led)

CaseInitAny == \E f \in 0..Len(SetupSteps) : CaseInit(f)

(***************************************************************************)
(* Second half: the four flag checks, the bound check and                  *)
(* state = next_state, then k_msleep(10), after which the uptime is later  *)
(* by at least 10 ms.  EvaluateFlags is the part before the sleep; the     *)
(* callbacks run during the sleep as well.                                 *)
(***************************************************************************)
EvaluateFlags ==
  /\ pc = "buttons"
  /\ action_led_hz' = HzAfterButtons(action_led_hz, up_button_event,
                                     down_button_event)
  /\ next_state' = NextAfterButtons(state, next_state, action_led_hz,
                                    sleep_button_event, up_button_event,
                                    down_button_event, reset_button_event)
  /\ state' = next_state'
  /\ sleep_button_event' = FALSE
  /\ up_button_event' = FALSE
  /\ down_button_event' = FALSE
  /\ reset_button_event' = FALSE
  /\ h' = HistButtons(h, state, state', action_led_hz', iv_pump_led_status,
                      sleep_button_event, up_button_event, down_button_event,
                      reset_button_event)
  /\ UNCHANGED << current_time, heartbeat_led_status, iv_pump_led_status,
                  pin, irq, cb, ret, faults, led_button, led_freq,
                  gpio_tests >>

\* the flag checks: main is at k_msleep afterwards
CheckFlags ==
  /\ EvaluateFlags
  /\ uptime' = uptime
  /\ pc' = "sleep"

\* k_msleep(10) returns after d in D ms; callbacks run while main sleeps
k_msleep(D) ==
  /\ pc = "sleep"
  /\ \E d \in D : uptime' = uptime + d
  /\ pc' = "run"
  /\ UNCHANGED << state, next_state, current_time, action_led_hz, flags,
                  heartbeat_led_status, iv_pump_led_status, pin, irq, cb,
                  ret, faults, h, led_button, led_freq, gpio_tests >>

\* k_msleep(10) in the runs with iterations of TickTime ms
MainSleep ==
  /\ uptime < MaxTickTime
  /\ k_msleep(TickDurations)

(***************************************************************************)
(* The button callbacks: each sets its own flag.  A callback runs when the *)
(* button's edge interrupt is enabled and the callback is registered, also *)
(* after main has returned from case INIT with a later setup call failed.  *)
(***************************************************************************)
Armed(b) == irq[b] /\ cb[b]

sleep_button_callback ==
  /\ Armed("sleep_button")
  /\ sleep_button_event' = TRUE
  /\ h' = HistPress(h, "sleep_button")
  /\ UNCHANGED << state, next_state, current_time, action_led_hz,
                  up_button_event, down_button_event, reset_button_event,
                  heartbeat_led_status, iv_pump_led_status, pin, irq, cb,
                  uptime, pc, ret, faults, led_button, led_freq, gpio_tests >>

\* mutant: the frequency-up callback sets the sleep flag as well
freq_up_button_callback_AlsoSleep ==
  /\ Armed("freq_up_button")
  /\ up_button_event' = TRUE
  /\ sleep_button_event' = TRUE
  /\ h' = HistPress(h, "freq_up_button")
  /\ UNCHANGED << state, next_state, current_time, action_led_hz,
                  down_button_event, reset_button_event,
                  heartbeat_led_status, iv_pump_led_status, pin, irq, cb,
                  uptime, pc, ret, faults, led_button, led_freq, gpio_tests >>

freq_up_button_callback ==
  /\ Armed("freq_up_button")
  /\ up_button_event' = TRUE
  /\ h' = HistPress(h, "freq_up_button")
  /\ UNCHANGED << state, next_state, current_time, action_led_hz,
                  sleep_button_event, down_button_event, reset_button_event,
                  heartbeat_led_status, iv_pump_led_status, pin, irq, cb,
                  uptime, pc, ret, faults, led_button, led_freq, gpio_tests >>

freq_down_button_callback ==
  /\ Armed("freq_down_button")
  /\ down_button_event' = TRUE
  /\ h' = HistPress(h, "freq_down_button")
  /\ UNCHANGED << state, next_state, current_time, action_led_hz,
                  sleep_button_event, up_button_event, reset_button_event,
                  heartbeat_led_status, iv_pump_led_status, pin, irq, cb,
                  uptime, pc, ret, faults, led_button, led_freq, gpio_tests >>

reset_button_callback ==
  /\ Armed("reset_button")
  /\ reset_button_event' = TRUE
  /\ h' = HistPress(h, "reset_button")
  /\ UNCHANGED << state, next_state, current_time, action_led_hz,
                  sleep_button_event, up_button_event, down_button_event,
                  heartbeat_led_status, iv_pump_led_status, pin, irq, cb,
                  uptime, pc, ret, faults, led_button, led_freq, gpio_tests >>

Next ==
  \/ CaseInitAny
  \/ CaseBlinkingEntry
  \/ CaseBlinkingRun
  \/ CaseError
  \/ CaseReset
  \/ CaseSleep
  \/ CheckFlags
  \/ MainSleep
  \/ sleep_button_callback
  \/ freq_up_button_callback
  \/ freq_down_button_callback
  \/ reset_button_callback

Spec == Init /\ [][Next]_vars

(***************************************************************************)
(* The controller with every iteration taking exactly the 10 ms of         *)
(* k_msleep(10).  The flag checks and the sleep are separate steps, so     *)
(* that a callback also runs between the two.  Buttons are pressed in the  *)
(* press windows only.  main is the only thread: a step of it that is      *)
(* enabled is taken eventually.                                            *)
(***************************************************************************)
InitFine ==
  /\ InitProgram
  /\ h = HistInit
  /\ led_button = LedButtonInit
  /\ led_freq = LedFreqInit
  /\ gpio_tests = GpioTestsInit

SleepQuantum == k_msleep({SLEEP_QUANTUM_MS})

PressWindow == \E s \in StartTimes : uptime \in s..(s + PressUntil)

SleepPress == PressWindow /\ sleep_button_callback

FreqUpPress == PressWindow /\ freq_up_button_callback

FreqDownPress == PressWindow /\ freq_down_button_callback

ResetPress == PressWindow /\ reset_button_callback

NextFine ==
  \/ CaseInitAny
  \/ CaseBlinkingEntry
  \/ CaseBlinkingRun
  \/ CaseError
  \/ CaseReset
  \/ CaseSleep
  \/ CheckFlags
  \/ SleepQuantum
  \/ SleepPress
  \/ FreqUpPress
  \/ FreqDownPress
  \/ ResetPress

\* the steps of main in the runs with 10 ms ticks
MainFine ==
  \/ CaseInitAny
  \/ CaseBlinkingEntry
  \/ CaseBlinkingRun
  \/ CaseError
  \/ CaseReset
  \/ CaseSleep
  \/ CheckFlags
  \/ SleepQuantum

SpecFine == InitFine /\ [][NextFine]_vars /\ WF_vars(MainFine)

(***************************************************************************)
(* The controller with buttons pressed at any time, the runs of the        *)
(* callbacks counted, and the flag checks and the sleep as separate steps. *)
(* main is entered at uptime 0 and goes to sleep until MaxPressTime.       *)
(***************************************************************************)
InitPress ==
  /\ InitProgram
  /\ uptime = 0
  /\ h = HistCounted
  /\ led_button = LedButtonInit
  /\ led_freq = LedFreqInit
  /\ gpio_tests = GpioTestsInit

SleepTick ==
  /\ uptime < MaxPressTime
  /\ k_msleep(TickDurations)

NextPress ==
  \/ CaseInitAny
  \/ CaseBlinkingEntry
  \/ CaseBlinkingRun
  \/ CaseError
  \/ CaseReset
  \/ CaseSleep
  \/ CheckFlags
  \/ SleepTick
  \/ sleep_button_callback
  \/ freq_up_button_callback
  \/ freq_down_button_callback
  \/ reset_button_callback

SpecPress == InitPress /\ [][NextPress]_vars

\* the controller before main is entered, in the runs of the other programs
LabIdle == InitProgram /\ uptime = 0 /\ h = HistInit

(***************************************************************************)
(* led_button_tests: main waits for two button events and toggles the LED  *)
(* after each.  button_test_callback runs in interrupt context between any *)
(* two steps of main.                                                      *)
(***************************************************************************)
\* the calls of init() in program order.  fallible: the call can fail;
\* fatal: init returns when it fails, and main returns -1
ButtonSetupSteps ==
  << [call |-> "k_event_init",        fallible |-> FALSE, fatal |-> FALSE],
     [call |-> "device_is_ready",     fallible |-> TRUE,  fatal |-> TRUE],
     [call |-> "configure_input",     fallible |-> TRUE,  fatal |-> TRUE],
     [call |-> "interrupt_configure", fallible |-> TRUE,  fatal |-> FALSE],
     [call |-> "add_callback",        fallible |-> TRUE,  fatal |-> FALSE],
     [call |-> "configure_output",    fallible |-> TRUE,  fatal |-> TRUE],
     [call |-> "pin_set",             fallible |-> FALSE, fatal |-> FALSE] >>

\* k_event_post(event, bits)
k_event_post(event, bits) == event \cup bits

\* k_event_clear(event, bits)
k_event_clear(event, bits) == event \ bits

\* the effect of call number i of init() when it succeeds
ButtonSetupEffect(lb, i) ==
  LET call == ButtonSetupSteps[i].call
  IN IF call = "k_event_init" THEN [lb EXCEPT !.button_events = {}]
     ELSE IF call = "interrupt_configure" THEN [lb EXCEPT !.irq = TRUE]
     ELSE IF call = "add_callback" THEN [lb EXCEPT !.cb = TRUE]
     ELSE IF call = "configure_output" THEN [lb EXCEPT !.led = LED_ON]
     ELSE IF call = "pin_set" THEN [lb EXCEPT !.led = lb.LED_STATE]
     ELSE lb

\* int err = init(); if (err != 0) return -1;  one call of init() per step,
\* ok: the call succeeds
LbInit(ok) ==
  /\ led_button.pc = "init"
  /\ ok \/ ButtonSetupSteps[led_button.step].fallible
  /\ LET i == led_button.step
         done == IF ok THEN ButtonSetupEffect(led_button, i) ELSE led_button
     IN led_button' =
          IF ~ok /\ ButtonSetupSteps[i].fatal
            THEN [done EXCEPT !.pc = "done", !.ret = -1]
          ELSE IF i = Len(ButtonSetupSteps)
            THEN [done EXCEPT !.pc = "wait"]
          ELSE [done EXCEPT !.step = i + 1]
  /\ UNCHANGED << gpio_lab, led_freq, gpio_tests >>

LbInitAny == \E ok \in BOOLEAN : LbInit(ok)

\* k_event_wait(&button_events, BUTTON_EVENT, true, K_FOREVER): the events
\* are reset before the wait starts
LbWait ==
  /\ led_button.pc = "wait"
  /\ led_button' = [led_button EXCEPT !.button_events = {}, !.pc = "blocked"]
  /\ UNCHANGED << gpio_lab, led_freq, gpio_tests >>

\* k_event_wait returns the posted events that match
LbWake ==
  /\ led_button.pc = "blocked"
  /\ led_button.button_events \cap BUTTON_EVENT # {}
  /\ led_button' = [led_button EXCEPT
                      !.events = led_button.button_events \cap BUTTON_EVENT,
                      !.pc = "toggle"]
  /\ UNCHANGED << gpio_lab, led_freq, gpio_tests >>

\* if (events & BUTTON_EVENT) LED_STATE = !LED_STATE;
LbToggle ==
  /\ led_button.pc = "toggle"
  /\ led_button' =
       IF led_button.events \cap BUTTON_EVENT # {}
         THEN [led_button EXCEPT !.LED_STATE = 1 - @, !.toggles = @ + 1,
                                 !.pc = "set"]
         ELSE [led_button EXCEPT !.pc = "next"]
  /\ UNCHANGED << gpio_lab, led_freq, gpio_tests >>

\* gpio_pin_set_dt(&led_test, LED_STATE);
LbSet ==
  /\ led_button.pc = "set"
  /\ led_button' = [led_button EXCEPT !.led = led_button.LED_STATE,
                                      !.pc = "clear"]
  /\ UNCHANGED << gpio_lab, led_freq, gpio_tests >>

\* k_event_clear(&button_events, BUTTON_EVENT);
LbClear ==
  /\ led_button.pc = "clear"
  /\ led_button' =
       [led_button EXCEPT
          !.button_events = k_event_clear(@, BUTTON_EVENT),
          !.pc = "next"]
  /\ UNCHANGED << gpio_lab, led_freq, gpio_tests >>

\* the end of an if block: the second wait, or return 0
\* mutant: main waits for a third event before it returns
LbNext_ThreeRounds ==
  /\ led_button.pc = "next"
  /\ led_button' =
       IF led_button.round < 3
         THEN [led_button EXCEPT !.round = @ + 1, !.pc = "wait"]
         ELSE [led_button EXCEPT !.pc = "done", !.ret = 0]
  /\ UNCHANGED << gpio_lab, led_freq, gpio_tests >>

LbNext ==
  /\ led_button.pc = "next"
  /\ led_button' =
       IF led_button.round = 1
         THEN [led_button EXCEPT !.round = 2, !.pc = "wait"]
         ELSE [led_button EXCEPT !.pc = "done", !.ret = 0]
  /\ UNCHANGED << gpio_lab, led_freq, gpio_tests >>

\* mutant: the callback posts every bit of the event
button_test_callback_AllBits ==
  /\ led_button.irq /\ led_button.cb
  /\ led_button.presses < MaxButtonPresses
  /\ led_button' =
       [led_button EXCEPT
          !.button_events = k_event_post(@, EventBits),
          !.presses = @ + 1]
  /\ UNCHANGED << gpio_lab, led_freq, gpio_tests >>

\* button_test_callback: k_event_post(&button_events, BUTTON_EVENT), while
\* the interrupt is enabled and the callback is registered (also after main
\* has returned)
button_test_callback ==
  /\ led_button.irq /\ led_button.cb
  /\ led_button.presses < MaxButtonPresses
  /\ led_button' =
       [led_button EXCEPT
          !.button_events = k_event_post(@, BUTTON_EVENT),
          !.presses = @ + 1]
  /\ UNCHANGED << gpio_lab, led_freq, gpio_tests >>

InitButton ==
  /\ LabIdle /\ led_button = LedButtonInit /\ led_freq = LedFreqInit
  /\ gpio_tests = GpioTestsInit

NextButton ==
  \/ LbInitAny
  \/ LbWait
  \/ LbWake
  \/ LbToggle
  \/ LbSet
  \/ LbClear
  \/ LbNext
  \/ button_test_callback

\* the steps of main
MainButton ==
  \/ LbInitAny
  \/ LbWait
  \/ LbWake
  \/ LbToggle
  \/ LbSet
  \/ LbClear
  \/ LbNext

\* main is the only thread: a step of it that is possible is taken; whether
\* the button is pressed is up to the environment
SpecButton == InitButton /\ [][NextButton]_vars /\ WF_vars(MainButton)

(***************************************************************************)
(* led_freq_tests: main toggles the LED every BLINK_INTERVAL_MS for        *)
(* BLINK_DURATION_MS and leaves it off.                                    *)
(***************************************************************************)
\* time k_msleep(BLINK_INTERVAL_MS) takes
SleepTimes ==
  {BLINK_INTERVAL_MS, BLINK_INTERVAL_MS + 1, BLINK_INTERVAL_MS + MaxOverrun}

\* mutant: the loop runs for twice the duration
KeepBlinking_Twice(elapsed) == elapsed < 2 * BLINK_DURATION_MS

\* while (elapsed_ms < BLINK_DURATION_MS)
KeepBlinking(elapsed) == elapsed < BLINK_DURATION_MS

\* int err = init(); if (err != 0) return err; start_ms = k_uptime_get();
\* elapsed_ms = 0;  f = 1: device_is_ready fails, f = 2:
\* gpio_pin_configure_dt fails, f = 0: neither
LfInit(f) ==
  /\ led_freq.pc = "init"
  /\ led_freq' =
       IF f = 0
         THEN [led_freq EXCEPT !.LED_STATE = LED_OFF, !.led = LED_OFF,
                               !.start_ms = led_freq.uptime,
                               !.elapsed_ms = 0, !.pc = "while"]
         ELSE [led_freq EXCEPT !.pc = "done",
                               !.ret = IF f = 1 THEN -ENODEV ELSE -EIO]
  /\ UNCHANGED << gpio_lab, led_button, gpio_tests >>

LfInitAny == \E f \in 0..2 : LfInit(f)

\* the loop condition
LfWhile ==
  /\ led_freq.pc = "while"
  /\ led_freq' = [led_freq EXCEPT
                    !.pc = IF KeepBlinking(led_freq.elapsed_ms) THEN "toggle"
                           ELSE "off"]
  /\ UNCHANGED << gpio_lab, led_button, gpio_tests >>

\* LED_STATE = !LED_STATE; gpio_pin_set_dt(&led_test, LED_STATE);
LfToggle ==
  /\ led_freq.pc = "toggle"
  /\ led_freq' =
       [led_freq EXCEPT
          !.LED_STATE = 1 - @, !.led = 1 - led_freq.LED_STATE,
          !.toggles = @ + 1,
          !.toggled_at = led_freq.uptime,
          !.gap = IF led_freq.toggled_at < 0 THEN 0
                  ELSE led_freq.uptime - led_freq.toggled_at,
          !.pc = "sleep"]
  /\ UNCHANGED << gpio_lab, led_button, gpio_tests >>

\* k_msleep(BLINK_INTERVAL_MS); elapsed_ms = k_uptime_get() - start_ms;
LfSleep ==
  /\ led_freq.pc = "sleep"
  /\ \E d \in SleepTimes :
       led_freq' = [led_freq EXCEPT
                      !.uptime = @ + d,
                      !.elapsed_ms = led_freq.uptime + d - led_freq.start_ms,
                      !.pc = "while"]
  /\ UNCHANGED << gpio_lab, led_button, gpio_tests >>

\* LED_STATE = LED_OFF; gpio_pin_set_dt(&led_test, LED_STATE); return 0;
LfOff ==
  /\ led_freq.pc = "off"
  /\ led_freq' = [led_freq EXCEPT !.LED_STATE = LED_OFF, !.led = LED_OFF,
                                  !.pc = "done", !.ret = 0]
  /\ UNCHANGED << gpio_lab, led_button, gpio_tests >>

InitFreq ==
  /\ LabIdle /\ led_button = LedButtonInit /\ led_freq = LedFreqInit
  /\ gpio_tests = GpioTestsInit

NextFreq ==
  \/ LfInitAny
  \/ LfWhile
  \/ LfToggle
  \/ LfSleep
  \/ LfOff

\* main runs whenever it can: a step of main that is possible is taken
SpecFreq == InitFreq /\ [][NextFreq]_vars /\ WF_vars(NextFreq)

(***************************************************************************)
(* The gpio_tests variant of the controller.  It has no next_state: the    *)
(* body of a state and the four event checks assign state directly, the    *)
(* event checks in the order sleep, reset, frequency up, frequency down.   *)
(* An iteration is a body step (pc "run" -> "events"), an event step (pc  *)
(* "events" -> "sleep") and k_msleep(10) (pc "sleep" -> "run"); the        *)
(* callbacks run between any two steps, also while main sleeps.  case      *)
(* AWAKE_EXIT is never selected.                                           *)
(***************************************************************************)
\* the setup calls of case INIT in program order
TestsSetupSteps ==
  << [call |-> "device_is_ready",   arg |-> "sleep_button",     fatal |-> TRUE],
     [call |-> "configure_input",   arg |-> "sleep_button",     fatal |-> TRUE],
     [call |-> "configure_input",   arg |-> "reset_button",     fatal |-> TRUE],
     [call |-> "configure_input",   arg |-> "freq_up_button",   fatal |-> TRUE],
     [call |-> "configure_input",   arg |-> "freq_down_button", fatal |-> TRUE],
     [call |-> "configure_output",  arg |-> "heartbeat_led",    fatal |-> TRUE],
     [call |-> "configure_output",  arg |-> "iv_pump_led",      fatal |-> TRUE],
     [call |-> "configure_output",  arg |-> "buzzer_led",       fatal |-> TRUE],
     [call |-> "configure_output",  arg |-> "error_led",        fatal |-> TRUE],
     [call |-> "interrupt_configure", arg |-> "sleep_button",     fatal |-> FALSE],
     [call |-> "interrupt_configure", arg |-> "reset_button",     fatal |-> FALSE],
     [call |-> "interrupt_configure", arg |-> "freq_up_button",   fatal |-> FALSE],
     [call |-> "interrupt_configure", arg |-> "freq_down_button", fatal |-> FALSE],
     [call |-> "add_callback",        arg |-> "sleep_button",     fatal |-> FALSE],
     [call |-> "add_callback",        arg |-> "reset_button",     fatal |-> FALSE],
     [call |-> "add_callback",        arg |-> "freq_up_button",   fatal |-> FALSE],
     [call |-> "add_callback",        arg |-> "freq_down_button", fatal |-> FALSE] >>

\* call number f fails (f = 0: none): is it fatal, and which calls took effect
TestsSetupFatal(f) == f # 0 /\ TestsSetupSteps[f].fatal

TestsSetupDid(f, call, arg) ==
  \E i \in 1..Len(TestsSetupSteps) :
     /\ i # f /\ (TestsSetupFatal(f) => i < f)
     /\ TestsSetupSteps[i].call = call /\ TestsSetupSteps[i].arg = arg

\* heartbeat_blink(): the toggle time and the pin level it leaves; the
\* illuminated flag is not written
heartbeat_blink(ct, status, level) ==
  IF ct - status.toggle_time > HEARTBEAT_TOGGLE_INTERVAL_MS
    THEN [status |-> [status EXCEPT !.toggle_time = ct], level |-> ~level]
    ELSE [status |-> status, level |-> level]

\* increase_action_led_blink_frequency / decrease_action_led_blink_frequency
increase_action_led_blink_frequency(freq) == freq + FREQ_UP_INC_HZ

decrease_action_led_blink_frequency(freq) == freq - FREQ_DOWN_INC_HZ

\* the if of DEFAULT_SETUP and AWAKE_RUN that toggles the action LEDs:
\* current_time - iv_pump_led_status.toggle_time > (1000 / (2 * freq))
TestsActionDue(ct, status, freq) ==
  ct - status.toggle_time > (1000 \div (2 * freq))

\* the pump and buzzer records and pins after that if, entered with the
\* pins at pump and buzz
TestsActionLeds(gt, ct, freq, pump, buzz) ==
  IF TestsActionDue(ct, gt.iv_pump_led_status, freq)
    THEN [iv |-> [toggle_time |-> ct,
                  illuminated |-> ~gt.iv_pump_led_status.illuminated],
          bz |-> [toggle_time |-> ct,
                  illuminated |-> ~gt.buzzer_led_status.illuminated],
          pump |-> ~pump, buzz |-> ~buzz]
    ELSE [iv |-> gt.iv_pump_led_status, bz |-> gt.buzzer_led_status,
          pump |-> pump, buzz |-> buzz]

\* int64_t current_time = k_uptime_get(); switch (state)
TestsRunState(st) ==
  /\ gpio_tests.pc = "run"
  /\ gpio_tests.state = st
  /\ gpio_tests.uptime <= MaxTestsTime
  /\ UNCHANGED << gpio_lab, led_button, led_freq >>

\* case INIT when setup call f fails (f = 0: all succeed)
TestsCaseInit(f) ==
  /\ TestsRunState(T_INIT)
  /\ LET gt == [gpio_tests EXCEPT
                  !.current_time = gpio_tests.uptime,
                  !.pin = [l \in DOMAIN gpio_tests.pin |->
                             IF TestsSetupDid(f, "configure_output", l)
                               THEN OutputInitial(l)
                               ELSE gpio_tests.pin[l]]]
     IN gpio_tests' =
          IF TestsSetupFatal(f)
            THEN [gt EXCEPT !.pc = "done",
                            !.ret = IF f = 1 THEN ERR_NOT_READY ELSE ERR_IO]
            ELSE [gt EXCEPT
                    !.irq = [b \in Buttons |->
                               TestsSetupDid(f, "interrupt_configure", b)],
                    !.cb = [b \in Buttons |->
                              TestsSetupDid(f, "add_callback", b)],
                    !.state = DEFAULT_SETUP,
                    !.pc = "events"]

TestsCaseInitAny == \E f \in 0..Len(TestsSetupSteps) : TestsCaseInit(f)

\* case DEFAULT_SETUP
TestsCaseDefaultSetup ==
  /\ TestsRunState(DEFAULT_SETUP)
  /\ LET ct == gpio_tests.uptime
         hb == heartbeat_blink(ct, gpio_tests.heartbeat_led_status,
                               gpio_tests.pin.heartbeat_led)
         on == [gpio_tests EXCEPT
                  !.iv_pump_led_status.illuminated = TRUE,
                  !.buzzer_led_status.illuminated = FALSE]
         al == TestsActionLeds(on, ct, LED_BLINK_FREQ_HZ, TRUE, FALSE)
     IN gpio_tests' =
          [gpio_tests EXCEPT
             !.current_time = ct,
             !.irq = [b \in Buttons |-> TRUE],
             !.heartbeat_led_status = hb.status,
             !.last_action_led_toggle_freq = LED_BLINK_FREQ_HZ,
             !.iv_pump_led_status = al.iv,
             !.buzzer_led_status = al.bz,
             !.pin = [heartbeat_led |-> hb.level, iv_pump_led |-> al.pump,
                      buzzer_led |-> al.buzz, error_led |-> FALSE],
             !.state = AWAKE_ENTRY,
             !.pc = "events"]

\* case AWAKE_ENTRY
TestsCaseAwakeEntry ==
  /\ TestsRunState(AWAKE_ENTRY)
  /\ LET ct == gpio_tests.uptime
         freq == gpio_tests.last_action_led_toggle_freq
         hb == heartbeat_blink(ct, gpio_tests.heartbeat_led_status,
                               gpio_tests.pin.heartbeat_led)
     IN gpio_tests' =
          [gpio_tests EXCEPT
             !.current_time = ct,
             !.state = IF freq < ACTION_BUTTON_MIN_THRESHOLD_HZ THEN T_ERROR
                       ELSE IF freq > ACTION_BUTTON_MAX_THRESHOLD_HZ
                         THEN T_ERROR
                       ELSE AWAKE_RUN,
             !.heartbeat_led_status = hb.status,
             !.pin.heartbeat_led = hb.level,
             !.pc = "events"]

\* case AWAKE_RUN
TestsCaseAwakeRun ==
  /\ TestsRunState(AWAKE_RUN)
  /\ LET ct == gpio_tests.uptime
         hb == heartbeat_blink(ct, gpio_tests.heartbeat_led_status,
                               gpio_tests.pin.heartbeat_led)
         al == TestsActionLeds(gpio_tests, ct,
                               gpio_tests.last_action_led_toggle_freq,
                               gpio_tests.iv_pump_led_status.illuminated,
                               gpio_tests.buzzer_led_status.illuminated)
     IN gpio_tests' =
          [gpio_tests EXCEPT
             !.current_time = ct,
             !.heartbeat_led_status = hb.status,
             !.iv_pump_led_status = al.iv,
             !.buzzer_led_status = al.bz,
             !.pin = [heartbeat_led |-> hb.level, iv_pump_led |-> al.pump,
                      buzzer_led |-> al.buzz,
                      error_led |-> gpio_tests.pin.error_led],
             !.pc = "events"]

\* case SLEEP
TestsCaseSleep ==
  /\ TestsRunState(T_SLEEP)
  /\ LET ct == gpio_tests.uptime
         hb == heartbeat_blink(ct, gpio_tests.heartbeat_led_status,
                               gpio_tests.pin.heartbeat_led)
     IN gpio_tests' =
          [gpio_tests EXCEPT
             !.current_time = ct,
             !.heartbeat_led_status = hb.status,
             !.pin = [heartbeat_led |-> hb.level, iv_pump_led |-> FALSE,
                      buzzer_led |-> FALSE,
                      error_led |-> gpio_tests.pin.error_led],
             !.pc = "events"]

\* case ERROR: the body itself consumes the reset flag.  It enables the
\* reset interrupt (line 309) before it reads the flag (line 311), so a
\* reset edge between the two lines (mid) is served and consumed by the
\* same body, also when the reset interrupt was disabled before.
TestsCaseError ==
  /\ TestsRunState(T_ERROR)
  /\ \E mid \in BOOLEAN :
       /\ mid => /\ gpio_tests.cb["reset_button"]
                 /\ gpio_tests.presses < MaxTestsPresses
       /\ LET ct == gpio_tests.uptime
              hb == heartbeat_blink(ct, gpio_tests.heartbeat_led_status,
                                    gpio_tests.pin.heartbeat_led)
              rs == gpio_tests.events["reset_button"] \/ mid
          IN gpio_tests' =
               [gpio_tests EXCEPT
                  !.current_time = ct,
                  !.heartbeat_led_status = hb.status,
                  !.pin = [heartbeat_led |-> hb.level, iv_pump_led |-> FALSE,
                           buzzer_led |-> FALSE, error_led |-> TRUE],
                  !.irq = [b \in Buttons |-> rs \/ b = "reset_button"],
                  !.state = IF rs THEN DEFAULT_SETUP ELSE T_ERROR,
                  !.events["reset_button"] = FALSE,
                  !.presses = IF mid THEN @ + 1 ELSE @,
                  !.body_rs = rs,
                  !.pc = "events"]

\* if (sleep_button_event): state and sleep_button_pressed
TestsSleepCheck(ev, pressed, st) ==
  IF ~ev THEN [state |-> st, pressed |-> pressed]
  ELSE IF pressed = 0 THEN [state |-> T_SLEEP, pressed |-> 1]
  ELSE [state |-> AWAKE_ENTRY, pressed |-> 0]

\* if (reset_button_event) state = DEFAULT_SETUP
TestsResetCheck(ev, st) == IF ev THEN DEFAULT_SETUP ELSE st

\* if (freq_up_button_event) / if (freq_down_button_event): state = AWAKE_ENTRY
TestsFreqCheck(ev, st) == IF ev THEN AWAKE_ENTRY ELSE st

\* the four event checks: main is at k_msleep(10) afterwards
TestsCheckEvents ==
  /\ gpio_tests.pc = "events"
  /\ LET ev == gpio_tests.events
         sl == TestsSleepCheck(ev["sleep_button"],
                               gpio_tests.sleep_button_pressed,
                               gpio_tests.state)
         f0 == gpio_tests.last_action_led_toggle_freq
         f1 == IF ev["freq_up_button"]
                 THEN increase_action_led_blink_frequency(f0) ELSE f0
         f2 == IF ev["freq_down_button"]
                 THEN decrease_action_led_blink_frequency(f1) ELSE f1
     IN gpio_tests' =
          [gpio_tests EXCEPT
             !.state = TestsFreqCheck(ev["freq_down_button"],
                         TestsFreqCheck(ev["freq_up_button"],
                           TestsResetCheck(ev["reset_button"], sl.state))),
             !.sleep_button_pressed = sl.pressed,
             !.last_action_led_toggle_freq = f2,
             !.events = [b \in Buttons |-> FALSE],
             !.body_rs = FALSE,
             !.last = [st |-> gpio_tests.state,
                       events |-> {b \in Buttons : ev[b]}
                                    \cup (IF gpio_tests.body_rs
                                            THEN {"reset_button"} ELSE {})],
             !.pc = "sleep"]
  /\ UNCHANGED << gpio_lab, led_button, led_freq >>

\* k_msleep(10) returns after d ms; the callbacks run while main sleeps
TestsSleep ==
  /\ gpio_tests.pc = "sleep"
  /\ \E d \in TickDurations :
       gpio_tests' = [gpio_tests EXCEPT !.uptime = gpio_tests.uptime + d,
                                        !.pc = "run"]
  /\ UNCHANGED << gpio_lab, led_button, led_freq >>

\* a button callback of the variant: <button>_event = 1
TestsCallback(b) ==
  /\ gpio_tests.irq[b] /\ gpio_tests.cb[b]
  /\ gpio_tests.presses < MaxTestsPresses
  /\ gpio_tests' = [gpio_tests EXCEPT !.events[b] = TRUE,
                                      !.presses = @ + 1]
  /\ UNCHANGED << gpio_lab, led_button, led_freq >>

TestsCallbackAny == \E b \in Buttons : TestsCallback(b)

InitTests ==
  /\ LabIdle /\ led_button = LedButtonInit /\ led_freq = LedFreqInit
  /\ gpio_tests = GpioTestsInit

NextTests ==
  \/ TestsCaseInitAny
  \/ TestsCaseDefaultSetup
  \/ TestsCaseAwakeEntry
  \/ TestsCaseAwakeRun
  \/ TestsCaseSleep
  \/ TestsCaseError
  \/ TestsCheckEvents
  \/ TestsSleep
  \/ TestsCallbackAny

SpecTests == InitTests /\ [][NextTests]_vars

TypeOK ==
  /\ state \in States /\ next_state \in States
  /\ action_led_hz \in Int
  /\ pc \in {"run", "buttons", "sleep", "done"}
  /\ faults \in 0..MaxFaults
  /\ led_button.LED_STATE \in {LED_OFF, LED_ON}
  /\ led_button.button_events \subseteq EventBits
  /\ led_freq.LED_STATE \in {LED_OFF, LED_ON}


(***************************************************************************)
(* Properties                                                              *)
(***************************************************************************)
\* the latest completed tick ran in state st
LastTickIn(st) == h.last.st = st

\* a tick has completed and the body of the next one has not run yet
TickDone == pc \in {"sleep", "run"} /\ h.last.st # -1

\* C1: once the committed state is Error, a tick that runs in Error and
\* does not consume the reset flag commits Error again, whatever sleep,
\* frequency-up or frequency-down flag it consumes.
C1_ErrorUntilReset ==
  (LastTickIn(ERROR) /\ ~h.last.rs) => state = ERROR

\* C2: a tick that runs in a state other than Error, leaves action_led_hz
\* outside [1,5] and does not consume the reset flag commits Error, also
\* when it consumed the sleep flag.
C2_BoundCheckForcesError ==
  (TickDone /\ ~LastTickIn(ERROR) /\ OutOfRange(action_led_hz) /\ ~h.last.rs)
    => state = ERROR

C2_Witness ==
  /\ TickDone /\ ~LastTickIn(ERROR) /\ ~h.last.rs
  /\ h.last.sl
  /\ OutOfRange(action_led_hz)
  /\ state = ERROR

\* C3: a tick that consumes the reset flag commits Reset, in every state,
\* whatever other flags it consumed and whatever the bound check chose.
C3_ResetWins == h.last.rs => state = RESET

C3_Witness ==
  /\ TickDone /\ h.last.rs /\ h.last.sl
  /\ ~LastTickIn(ERROR) /\ OutOfRange(action_led_hz)
  /\ state = RESET

\* C4: after a tick that consumed the reset flag, if the following ticks
\* consume no flag, the first of them commits BlinkEntry with
\* action_led_hz = 2 and the second commits BlinkRun with action_led_hz = 2,
\* whatever the state and the frequency of the tick that consumed the flag.
C4_ResetReachesRun ==
  /\ h.rst.n = 0 => state = RESET
  /\ h.rst.n = 1 => (state = BLINKING_ENTRY /\ action_led_hz = LED_BLINK_FREQ_HZ)
  /\ h.rst.n = 2 => (state = BLINKING_RUN /\ action_led_hz = LED_BLINK_FREQ_HZ)

C4_Witness ==
  /\ h.rst.n = 2 /\ h.rst.st = ERROR /\ h.rst.hz = MAX_FREQ_HZ + 1
  /\ state = BLINKING_RUN /\ action_led_hz = LED_BLINK_FREQ_HZ

\* C5: as long as no Reset body has run, action_led_hz is 2 plus the number
\* of frequency-up flags consumed minus the number of frequency-down flags
\* consumed, in every state.
C5_FrequencyIsSum ==
  h.counting => action_led_hz = LED_BLINK_FREQ_HZ + h.ups - h.downs

C5_Witness ==
  /\ h.counting /\ h.ups = 2 /\ h.downs = 1
  /\ action_led_hz = LED_BLINK_FREQ_HZ + 1
  /\ state = SLEEP

\* the latest completed tick consumed no flag
LastTickQuiet == ~h.last.sl /\ ~h.last.up /\ ~h.last.down /\ ~h.last.rs

\* C6: the range [1,5] is inclusive.  A BlinkRun tick that leaves
\* action_led_hz at exactly 1 or exactly 5 (and consumes neither the sleep
\* nor the reset flag) commits BlinkRun, and a tick that runs outside Error
\* commits Error only with action_led_hz below 1 or above 5.
C6_RangeInclusive ==
  /\ (TickDone /\ LastTickIn(BLINKING_RUN) /\ ~h.last.sl /\ ~h.last.rs
        /\ action_led_hz \in {MIN_FREQ_HZ, MAX_FREQ_HZ})
       => state = BLINKING_RUN
  /\ (TickDone /\ ~LastTickIn(ERROR) /\ state = ERROR)
       => (action_led_hz < MIN_FREQ_HZ \/ action_led_hz > MAX_FREQ_HZ)

C6_Witness ==
  /\ TickDone /\ LastTickIn(BLINKING_RUN) /\ h.last.up
  /\ action_led_hz = MAX_FREQ_HZ
  /\ state = BLINKING_RUN

\* C7: a tick that consumes the sleep flag and no reset flag and leaves
\* action_led_hz within [1,5] commits BlinkEntry when it ran in Sleep and
\* Sleep when it ran in any other state; a BlinkEntry tick that consumes no
\* flag then commits BlinkRun.
C7_SleepToggles ==
  /\ (TickDone /\ h.last.sl /\ ~h.last.rs
        /\ action_led_hz \in MIN_FREQ_HZ..MAX_FREQ_HZ)
       => state = (IF LastTickIn(SLEEP) THEN BLINKING_ENTRY ELSE SLEEP)
  /\ (TickDone /\ LastTickIn(BLINKING_ENTRY) /\ LastTickQuiet
        /\ action_led_hz \in MIN_FREQ_HZ..MAX_FREQ_HZ)
       => state = BLINKING_RUN

C7_Witness ==
  /\ TickDone /\ h.last.sl /\ ~h.last.rs /\ LastTickIn(SLEEP)
  /\ action_led_hz \in MIN_FREQ_HZ..MAX_FREQ_HZ
  /\ state = BLINKING_ENTRY

\* C8: while the state is Sleep (and the Sleep body has run) the pump and
\* buzzer outputs are off and the pump blinker record is the one Sleep was
\* entered with, and when a Sleep tick consumes the sleep flag and leaves
\* for BlinkEntry, action_led_hz is what it was at the end of the tick that
\* entered Sleep.
C8_SleepPreserves ==
  /\ (state = SLEEP /\ (pc = "buttons" \/ LastTickIn(SLEEP)))
       => (~pin.iv_pump_led /\ ~pin.buzzer_led)
  /\ state = SLEEP => iv_pump_led_status = h.sleep_pump
  /\ (TickDone /\ LastTickIn(SLEEP) /\ h.last.sl /\ state = BLINKING_ENTRY)
       => action_led_hz = h.sleep_hz

\* C9: the Init tick, when setup does not return and no flag is consumed,
\* commits BlinkRun (not BlinkEntry) and main is still running.
C9_InitToRun ==
  (LastTickIn(INIT) /\ LastTickQuiet) => (state = BLINKING_RUN /\ pc # "done")

C9_Witness ==
  /\ LastTickIn(INIT) /\ LastTickQuiet
  /\ state = BLINKING_RUN /\ pc = "buttons"

\* the body of a tick in a state of S makes the heartbeat step: the
\* heartbeat blinker toggles and takes the time of the tick if more than
\* 500 ms passed since its last toggle, and is left alone otherwise
HeartbeatStepIn(S) ==
  (pc = "run" /\ pc' = "buttons" /\ state \in S)
    => heartbeat_led_status' =
         IF current_time' - heartbeat_led_status.toggle_time
              > HEARTBEAT_TOGGLE_INTERVAL_MS
           THEN [toggle_time |-> current_time',
                 illuminated |-> ~heartbeat_led_status.illuminated]
           ELSE heartbeat_led_status

\* C10 as stated: the body of every state, Init included, makes the
\* heartbeat step before the flags are processed.
C10_HeartbeatInEveryState == [][HeartbeatStepIn(States)]_vars

\* C10 amended: the body of each of the five states BlinkEntry, BlinkRun,
\* Sleep, Reset and Error makes the heartbeat step before the flags are
\* processed; the Init body leaves the heartbeat blinker alone.
C10_HeartbeatAfterInit ==
  [][/\ HeartbeatStepIn(States \ {INIT})
     /\ (pc = "run" /\ state = INIT)
          => heartbeat_led_status' = heartbeat_led_status]_vars

C10_Witness ==
  /\ pc = "buttons" /\ state = ERROR
  /\ current_time > HEARTBEAT_TOGGLE_INTERVAL_MS
  /\ heartbeat_led_status.toggle_time = current_time

(***************************************************************************)
(* Heartbeat and action timing (runs with 10 ms ticks, SpecFine)           *)
(***************************************************************************)
\* a step that runs the body of a state
BodyStep == pc = "run" /\ pc' = "buttons"

\* a step that evaluates the flags and commits
CommitStep == pc = "buttons" /\ pc' = "sleep"

\* main is past a successful setup and has not returned
Looping == pc # "done" /\ (state # INIT \/ pc # "run")

\* the loop runs, the heartbeat output is at level v, and the bound on the
\* uptime leaves main the time for one more heartbeat interval
HeartbeatAt(v) ==
  /\ Looping
  /\ pin.heartbeat_led = v
  /\ uptime + HEARTBEAT_TOGGLE_INTERVAL_MS + 2 * SLEEP_QUANTUM_MS <= MaxTime

\* C11: with 10 ms ticks the time between two consecutive changes of the
\* heartbeat output is 500 ms up to one tick quantum, and after the body of
\* any state past Init the latest change (or the initial toggle_time 0) is
\* at most 500 ms plus one quantum old, in every state and across state
\* changes; and the output keeps toggling: whenever the loop runs with the
\* output at some level, the output leaves that level later on.
C11_HeartbeatPeriod ==
  /\ [](h.hb_gap # 0 =>
         /\ h.hb_gap >= HEARTBEAT_TOGGLE_INTERVAL_MS - SLEEP_QUANTUM_MS
         /\ h.hb_gap <= HEARTBEAT_TOGGLE_INTERVAL_MS + SLEEP_QUANTUM_MS)
  /\ []((pc = "buttons" /\ state # INIT) =>
         current_time - (IF h.hb_at < 0 THEN 0 ELSE h.hb_at)
           <= HEARTBEAT_TOGGLE_INTERVAL_MS + SLEEP_QUANTUM_MS)
  /\ \A v \in BOOLEAN : HeartbeatAt(v) ~> (pin.heartbeat_led # v)

C11_Witness ==
  /\ pc = "buttons" /\ state \in {SLEEP, ERROR}
  /\ h.hb_gap # 0 /\ h.hb_at = current_time
  /\ iv_pump_led_status.toggle_time > HEARTBEAT_TOGGLE_INTERVAL_MS

\* C12: a body that calls heartbeat() changes the heartbeat output exactly
\* when current_time minus the time of the last toggle is at least 500 ms.
C12_HeartbeatAtInterval ==
  [][(BodyStep /\ state # INIT) =>
       ((pin'.heartbeat_led # pin.heartbeat_led)
          <=> (current_time' - heartbeat_led_status.toggle_time
                 >= HEARTBEAT_TOGGLE_INTERVAL_MS))]_vars

\* the half-periods of C13 for the frequencies 1 to 5
C13_HalfPeriod == << 500, 250, 166, 125, 100 >>

\* C13: the body of BlinkRun changes the pump and the buzzer output
\* together, exactly when current_time minus the time of the last action
\* toggle is at least the half-period of the frequency.
C13_ActionAtHalfPeriod ==
  [][(BodyStep /\ state = BLINKING_RUN /\ action_led_hz \in 1..5) =>
       /\ (pin'.iv_pump_led # pin.iv_pump_led)
            <=> (pin'.buzzer_led # pin.buzzer_led)
       /\ (pin'.iv_pump_led # pin.iv_pump_led)
            <=> (current_time' - iv_pump_led_status.toggle_time
                   >= C13_HalfPeriod[action_led_hz])]_vars

(***************************************************************************)
(* Button flags                                                            *)
(***************************************************************************)
\* 1 if the callback of button b ran since its flag was last evaluated
Pressed(b) == IF h.presses[b] >= 1 THEN 1 ELSE 0

\* C14: whatever the number of runs of a callback since its flag was last
\* evaluated, the evaluation applies the button's effect once: the
\* frequency changes by one per pressed frequency button, a pressed reset
\* button commits Reset and a pressed sleep button toggles between Sleep and
\* BlinkEntry unless the bound check or the reset flag overrides it.
C14_PressesCoalesce ==
  [][CommitStep =>
       /\ action_led_hz' = action_led_hz + Pressed("freq_up_button")
                             - Pressed("freq_down_button")
       /\ Pressed("reset_button") = 1 => state' = RESET
       /\ (/\ Pressed("sleep_button") = 1
           /\ Pressed("reset_button") = 0
           /\ state = ERROR \/ action_led_hz' \in MIN_FREQ_HZ..MAX_FREQ_HZ)
            => state' = (IF state = SLEEP THEN BLINKING_ENTRY ELSE SLEEP)]_vars

C14_Witness ==
  /\ TickDone
  /\ h.last.up /\ "freq_up_button" \in h.last.many
  /\ h.last.sl /\ "sleep_button" \in h.last.many
  /\ state = SLEEP /\ action_led_hz = LED_BLINK_FREQ_HZ + 1

\* 1 if the flag is set
Bit(flag) == IF flag THEN 1 ELSE 0

\* C15: every evaluation of the flags applies the effect of each flag that
\* is set and clears it in the same tick: the frequency changes by the set
\* frequency flags, a set reset flag commits Reset, a set sleep flag toggles
\* between Sleep and BlinkEntry unless the bound check or the reset flag
\* overrides it, and all four flags are false after the evaluation.
C15_PressNotLost ==
  [][CommitStep =>
       /\ ~sleep_button_event' /\ ~up_button_event'
       /\ ~down_button_event' /\ ~reset_button_event'
       /\ action_led_hz' - action_led_hz
            = Bit(up_button_event) - Bit(down_button_event)
       /\ reset_button_event => state' = RESET
       /\ (/\ sleep_button_event /\ ~reset_button_event
           /\ state = ERROR \/ action_led_hz' \in MIN_FREQ_HZ..MAX_FREQ_HZ)
            => state' = (IF state = SLEEP THEN BLINKING_ENTRY ELSE SLEEP)]_vars

C15_Witness ==
  /\ TickDone
  /\ h.last.up /\ h.last.down /\ h.last.sl /\ ~h.last.rs
  /\ h.last.st = BLINKING_RUN /\ state = SLEEP
  /\ h.ups = 1 /\ h.downs = 1
  /\ flags = << FALSE, FALSE, FALSE, FALSE >>

(***************************************************************************)
(* Setup failures                                                          *)
(***************************************************************************)
\* C16: when main has returned its status is non-zero, and when the loop
\* goes on after the body of Init no setup call has failed: every button
\* has its callback registered, and at the end of the Init body its
\* interrupt enabled.
C16_SetupFailureFatal ==
  /\ pc = "done" => ret # 0
  /\ (pc # "done" /\ (state # INIT \/ pc = "buttons"))
       => \A b \in Buttons : cb[b]
  /\ (state = INIT /\ pc = "buttons") => \A b \in Buttons : irq[b]

(***************************************************************************)
(* Order of the steps of a tick                                            *)
(***************************************************************************)
\* C20: state changes in the commit step only; the commit step applies the
\* frequency flags first and then decides the committed state from the
\* body's next_state, the sleep flag, the bound check on the new frequency
\* and the reset flag, in this order of increasing priority; when a body
\* starts state equals next_state.
C20_TickOrder ==
  /\ [](pc = "run" => state = next_state)
  /\ [][/\ state' # state => CommitStep
        /\ CommitStep =>
             /\ action_led_hz' = action_led_hz + Bit(up_button_event)
                                   - Bit(down_button_event)
             /\ state' = next_state'
             /\ state' =
                  IF reset_button_event THEN RESET
                  ELSE IF state # ERROR
                          /\ action_led_hz' \notin MIN_FREQ_HZ..MAX_FREQ_HZ
                    THEN ERROR
                  ELSE IF sleep_button_event
                    THEN (IF state = SLEEP THEN BLINKING_ENTRY ELSE SLEEP)
                  ELSE next_state]_vars

C20_Witness ==
  /\ TickDone
  /\ h.last.sl /\ h.last.up /\ h.last.down /\ h.last.rs
  /\ state = RESET /\ next_state = RESET

(***************************************************************************)
(* led_button_tests                                                        *)
(***************************************************************************)
\* main waits for an event that has not been posted, or has returned
LbQuiet ==
  \/ led_button.pc = "done"
  \/ led_button.pc = "blocked" /\ led_button.button_events \cap BUTTON_EVENT = {}

\* C17: when main waits or has returned, each of the first two presses
\* delivered while it ran has toggled LED_STATE once: the number of toggles
\* is the number of presses, up to two, and LED_STATE is ON after one and
\* OFF after two.
C17_EachPressToggles ==
  (LbQuiet /\ led_button.ret = 0) =>
    /\ led_button.toggles
         = (IF led_button.presses < 2 THEN led_button.presses ELSE 2)
    /\ led_button.LED_STATE = led_button.toggles % 2

\* C18: LED_STATE is LED_OFF and main has not passed its first wait while no
\* press has been delivered, and a run of button_test_callback adds the
\* BUTTON_EVENT bit to the event and changes nothing else.
C18_NoPressNoChange ==
  /\ [](led_button.presses = 0 =>
          /\ led_button.LED_STATE = LED_OFF /\ led_button.toggles = 0
          /\ led_button.round = 1
          /\ led_button.pc \in {"init", "wait", "blocked", "done"})
  /\ [][led_button.presses' # led_button.presses =>
          /\ led_button'.button_events = led_button.button_events \cup {0}
          /\ led_button' = [led_button EXCEPT
                              !.button_events = led_button'.button_events,
                              !.presses = led_button'.presses]]_vars

C18_Witness ==
  /\ led_button.pc = "blocked" /\ led_button.presses = 1
  /\ led_button.button_events = {0}
  /\ led_button.LED_STATE = LED_OFF

(***************************************************************************)
(* led_freq_tests                                                          *)
(***************************************************************************)
\* EXPECTED_TOGGLES of test_freq_callback.h
EXPECTED_TOGGLES == BLINK_DURATION_MS \div BLINK_INTERVAL_MS

\* C19: when init succeeds main returns; by then it has toggled LED_STATE
\* EXPECTED_TOGGLES times, give or take one, the first toggle turning the
\* LED on, consecutive toggles BLINK_INTERVAL_MS apart (plus the time
\* k_msleep returns late), and LED_STATE and the pin are off.
C19_BlinksAndStops ==
  /\ [](led_freq.gap # 0 =>
          /\ led_freq.gap >= BLINK_INTERVAL_MS
          /\ led_freq.gap <= BLINK_INTERVAL_MS + MaxOverrun)
  /\ [](led_freq.pc = "sleep" => led_freq.LED_STATE = led_freq.toggles % 2)
  /\ []((led_freq.pc = "done" /\ led_freq.ret = 0) =>
          /\ led_freq.toggles >= EXPECTED_TOGGLES - 1
          /\ led_freq.toggles <= EXPECTED_TOGGLES + 1
          /\ led_freq.LED_STATE = LED_OFF /\ led_freq.led = LED_OFF)
  /\ <>(led_freq.pc = "done")

C19_Witness ==
  /\ led_freq.pc = "done" /\ led_freq.ret = 0
  /\ led_freq.toggles = EXPECTED_TOGGLES - 1
  /\ led_freq.gap = BLINK_INTERVAL_MS + MaxOverrun

(***************************************************************************)
(* State bodies and outputs                                                *)
(***************************************************************************)
\* the state a body selects when no flag is set and the bound check passes
C21_Committed ==
  [s \in States |->
     IF s \in {INIT, BLINKING_ENTRY, BLINKING_RUN} THEN BLINKING_RUN
     ELSE IF s = RESET THEN BLINKING_ENTRY
     ELSE s]

\* C21: a tick that consumes no flag and ends with action_led_hz in [1,5]
\* commits BlinkRun from Init, BlinkEntry and BlinkRun, Sleep from Sleep,
\* Error from Error and BlinkEntry from Reset; a body changes action_led_hz
\* only in Reset (to 2) and a commit step with no flag set leaves it.
C21_QuietTick ==
  /\ []((/\ TickDone /\ LastTickQuiet
         /\ action_led_hz \in MIN_FREQ_HZ..MAX_FREQ_HZ)
          => state = C21_Committed[h.last.st])
  /\ [][/\ BodyStep =>
             action_led_hz' = (IF state = RESET THEN 2 ELSE action_led_hz)
        /\ (CommitStep /\ flags = << FALSE, FALSE, FALSE, FALSE >>)
             => action_led_hz' = action_led_hz]_vars

C21_Witness ==
  /\ TickDone /\ LastTickQuiet /\ LastTickIn(ERROR)
  /\ action_led_hz \in MIN_FREQ_HZ..MAX_FREQ_HZ
  /\ state = ERROR

\* the BlinkEntry body has run and the flags have not been evaluated yet
AfterEntryBody == pc = "buttons" /\ state = BLINKING_ENTRY

\* C22: after the BlinkEntry body the pump output is on, the buzzer output
\* is off and the error output is off.
C22_EntryPumpOn ==
  AfterEntryBody =>
    (pin.iv_pump_led /\ ~pin.buzzer_led /\ ~pin.error_led)

\* C22 (amended): after the BlinkEntry body the pump output equals
\* iv_pump_led_status.illuminated, the buzzer output is its inverse and the
\* error output is off; when the reset flag was consumed in Error and the
\* Reset tick followed, the pump is off and the buzzer on.
C22_EntryRestores ==
  AfterEntryBody =>
    /\ pin.iv_pump_led = iv_pump_led_status.illuminated
    /\ pin.buzzer_led = ~iv_pump_led_status.illuminated
    /\ ~pin.error_led
    /\ (h.rst.st = ERROR /\ h.rst.n = 1)
         => (~pin.iv_pump_led /\ pin.buzzer_led)

C22_Witness ==
  /\ AfterEntryBody
  /\ h.rst.st = ERROR /\ h.rst.n = 1
  /\ ~pin.iv_pump_led /\ pin.buzzer_led /\ ~pin.error_led

\* C23: after the Error body the pump and buzzer outputs are off, the error
\* output is on and the sleep, frequency-up and frequency-down interrupts
\* are disabled; the error output goes off in a BlinkEntry body only.
C23_ErrorOutputs ==
  /\ []((pc = "buttons" /\ state = ERROR) =>
          /\ ~pin.iv_pump_led /\ ~pin.buzzer_led /\ pin.error_led
          /\ ~irq["sleep_button"] /\ ~irq["freq_up_button"]
          /\ ~irq["freq_down_button"])
  /\ [][(pin.error_led /\ ~pin'.error_led)
          => (BodyStep /\ state = BLINKING_ENTRY)]_vars

\* C24: whenever the state is BlinkRun the pump and buzzer outputs have
\* opposite levels and the pump output equals iv_pump_led_status.illuminated.
C24_PumpBuzzerOpposite ==
  state = BLINKING_RUN =>
    /\ pin.iv_pump_led # pin.buzzer_led
    /\ pin.iv_pump_led = iv_pump_led_status.illuminated

C24_Witness ==
  /\ state = BLINKING_RUN /\ pc = "run"
  /\ h.rst.st = ERROR /\ h.rst.n = 2
  /\ pin.buzzer_led /\ ~pin.iv_pump_led
  /\ ~iv_pump_led_status.illuminated

(***************************************************************************)
(* Callbacks, Error, Sleep and the interrupts                              *)
(***************************************************************************)
\* the flag of button b
Flag(b) ==
  CASE b = "sleep_button" -> sleep_button_event
    [] b = "freq_up_button" -> up_button_event
    [] b = "freq_down_button" -> down_button_event
    [] b = "reset_button" -> reset_button_event

\* C25: a run of the callback of button b leaves the flag of b true and
\* the other three flags as they were; a step that is not a step of the
\* loop leaves state, next_state, action_led_hz and both blinker records
\* unchanged and clears no flag; the blinker records change in a state body
\* only.
C25_CallbackFrame ==
  [][/\ \A b \in Buttons :
          h'.presses[b] > h.presses[b] =>
            /\ Flag(b)'
            /\ \A c \in Buttons \ {b} : Flag(c)' = Flag(c)
     /\ pc' = pc =>
          /\ UNCHANGED << state, next_state, action_led_hz,
                          heartbeat_led_status, iv_pump_led_status >>
          /\ \A b \in Buttons : Flag(b) => Flag(b)'
     /\ (heartbeat_led_status' # heartbeat_led_status
           \/ iv_pump_led_status' # iv_pump_led_status) => BodyStep]_vars

C25_Witness ==
  /\ pc = "sleep" /\ state = BLINKING_RUN
  /\ h.presses["freq_up_button"] = 1 /\ h.presses["reset_button"] = 1
  /\ up_button_event /\ reset_button_event
  /\ ~sleep_button_event /\ ~down_button_event

\* C26: the state changes from another state to Error only in a commit
\* step that leaves action_led_hz outside [1,5], and no body of a state
\* other than Error selects Error.
C26_ErrorOnlyByBound ==
  [][/\ (state # ERROR /\ state' = ERROR) =>
          /\ CommitStep
          /\ action_led_hz' \notin MIN_FREQ_HZ..MAX_FREQ_HZ
     /\ (BodyStep /\ state # ERROR) => next_state' # ERROR]_vars

C26_Witness ==
  /\ TickDone /\ LastTickIn(SLEEP) /\ state = ERROR
  /\ action_led_hz \notin MIN_FREQ_HZ..MAX_FREQ_HZ

\* C27: when a Sleep tick consumes the sleep flag and commits BlinkEntry,
\* action_led_hz is what it was when Sleep was entered, and the BlinkEntry
\* tick that follows, consuming no flag, commits BlinkRun.
C27_WakeResumes ==
  /\ (TickDone /\ LastTickIn(SLEEP) /\ h.last.sl
        /\ ~h.last.up /\ ~h.last.down /\ ~h.last.rs)
       => (state = BLINKING_ENTRY /\ action_led_hz = h.sleep_hz)
  /\ (TickDone /\ LastTickIn(BLINKING_ENTRY) /\ LastTickQuiet)
       => state = BLINKING_RUN

\* C28: whenever the state is BlinkRun action_led_hz is within [1,5], so
\* the divisor action_led_hz * 2 of actionLEDs() is positive.
C28_RunFrequencyInRange ==
  state = BLINKING_RUN =>
    /\ action_led_hz >= MIN_FREQ_HZ /\ action_led_hz <= MAX_FREQ_HZ
    /\ action_led_hz * 2 > 0

C28_Witness ==
  /\ state = BLINKING_RUN /\ pc = "buttons"
  /\ action_led_hz = MAX_FREQ_HZ
  /\ up_button_event

\* C29: whenever the state is Sleep the sleep-button interrupt is enabled.
C29_SleepCanWake == state = SLEEP => irq["sleep_button"]

\* C30: once the Init body has run and main has not returned the
\* reset-button interrupt is enabled, and whenever the state is BlinkRun
\* all four button interrupts are enabled.
C30_InterruptsEnabled ==
  /\ (pc # "done" /\ (state # INIT \/ pc = "buttons")) => irq["reset_button"]
  /\ state = BLINKING_RUN => \A b \in Buttons : irq[b]

(***************************************************************************)
(* Net frequency, error output, state values                               *)
(***************************************************************************)
\* C31: a commit step that consumes both the frequency-up and the
\* frequency-down flag leaves action_led_hz unchanged, and when the
\* frequency is within [1,5] (the boundary values 1 and 5 included) and the
\* state is not Error that step does not commit Error.
C31_NetFrequencyChecked ==
  [][(CommitStep /\ up_button_event /\ down_button_event) =>
       /\ action_led_hz' = action_led_hz
       /\ (state # ERROR /\ action_led_hz >= MIN_FREQ_HZ
             /\ action_led_hz <= MAX_FREQ_HZ) => state' # ERROR]_vars

C31_Witness ==
  /\ TickDone /\ LastTickIn(BLINKING_RUN)
  /\ h.last.up /\ h.last.down /\ ~h.last.sl /\ ~h.last.rs
  /\ action_led_hz = MAX_FREQ_HZ
  /\ state = BLINKING_RUN

\* C32: whenever the state is BlinkRun the error output is off, and the
\* error output is turned on by the Error body only.
C32_NoErrorLedInRun ==
  /\ [](state = BLINKING_RUN => ~pin.error_led)
  /\ [][(~pin.error_led /\ pin'.error_led) => (BodyStep /\ state = ERROR)]_vars

C32_Witness ==
  /\ state = BLINKING_RUN /\ pc = "buttons"
  /\ h.rst.st = ERROR /\ h.rst.n = 2
  /\ ~pin.error_led

\* C33: state and next_state are always one of the six values of enum
\* states; no step takes the state from another value back to Init, and
\* once a tick has committed the state is not Init.
C33_StateEnumerated ==
  /\ [](state \in States /\ next_state \in States)
  /\ [](TickDone => state # INIT)
  /\ [][state # INIT => state' # INIT]_vars

C33_Witness ==
  /\ TickDone /\ LastTickIn(INIT) /\ h.last.rs /\ h.last.sl
  /\ state = RESET

\* C34: LED_STATE is toggled at most twice; when main has returned 0 it has
\* consumed two events (two rounds, two toggles); once two events are
\* consumed no step changes LED_STATE, and after main has returned a press
\* changes nothing but the event object and the count of presses; and once
\* the second wait has returned with the event, main returns 0.
C34_TwoEventsThenDone ==
  /\ (led_button.round = 2 /\ led_button.pc = "toggle")
       ~> (led_button.pc = "done" /\ led_button.ret = 0)
  /\ [](led_button.toggles <= 2)
  /\ []((led_button.pc = "done" /\ led_button.ret = 0) =>
          (led_button.round = 2 /\ led_button.toggles = 2))
  /\ [][/\ led_button.toggles = 2 =>
             led_button'.LED_STATE = led_button.LED_STATE
        /\ led_button.pc = "done" =>
             led_button' = [led_button EXCEPT
                              !.button_events = led_button'.button_events,
                              !.presses = led_button'.presses]]_vars

C34_Witness ==
  /\ led_button.pc = "done" /\ led_button.ret = 0
  /\ led_button.toggles = 2 /\ led_button.presses > 2
  /\ led_button.button_events = BUTTON_EVENT
  /\ led_button.LED_STATE = LED_OFF

(***************************************************************************)
(* Range of the frequency, heartbeat pin and flag                          *)
(***************************************************************************)
\* C37: action_led_hz is within [-1,7] in every reachable state.
C37_FrequencyBounded ==
  /\ action_led_hz >= MIN_FREQ_HZ - 2
  /\ action_led_hz <= MAX_FREQ_HZ + 2

\* C38: once the Init body has configured the outputs and while main runs,
\* the level of the heartbeat pin equals heartbeat_led_status.illuminated,
\* and past Init a step changes the one exactly when it changes the other.
C38_HeartbeatMirrorsPin ==
  /\ []((pc # "done" /\ (state # INIT \/ pc = "buttons")) =>
          pin.heartbeat_led = heartbeat_led_status.illuminated)
  /\ [][state # INIT =>
          ((pin'.heartbeat_led # pin.heartbeat_led)
             <=> (heartbeat_led_status'.illuminated
                    # heartbeat_led_status.illuminated))]_vars

C38_Witness ==
  /\ pc = "buttons" /\ state = ERROR
  /\ ~pin.heartbeat_led /\ ~heartbeat_led_status.illuminated
  /\ heartbeat_led_status.toggle_time > 0

(***************************************************************************)
(* The gpio_tests variant                                                  *)
(***************************************************************************)
\* an event step of the variant
TestsEventStep == gpio_tests.pc = "events" /\ gpio_tests'.pc = "sleep"

\* C35: an event step that consumes the sleep flag and no other flag leaves
\* the state SLEEP when the state was not SLEEP and AWAKE_ENTRY when it was
\* SLEEP, and at the start of every iteration sleep_button_pressed is 1
\* exactly when the state is SLEEP.
C35_SleepToggles ==
  /\ [](gpio_tests.pc = "run" =>
          ((gpio_tests.sleep_button_pressed = 1)
             <=> (gpio_tests.state = T_SLEEP)))
  /\ [][(/\ TestsEventStep
         /\ gpio_tests.events = [b \in Buttons |-> b = "sleep_button"]
         /\ ~gpio_tests.body_rs) =>
          gpio_tests'.state = (IF gpio_tests.state = T_SLEEP
                                 THEN AWAKE_ENTRY ELSE T_SLEEP)]_vars

\* C36: an iteration that consumes the reset flag, in its body or in its
\* event step, ends with the state DEFAULT_SETUP whatever other flags it
\* consumes, and a step takes the state from ERROR to another state only
\* when it consumes the reset flag.
C36_ResetWins ==
  [][/\ (TestsEventStep
           /\ (gpio_tests.events["reset_button"] \/ gpio_tests.body_rs)) =>
          gpio_tests'.state = DEFAULT_SETUP
     /\ (gpio_tests.state = T_ERROR /\ gpio_tests'.state # T_ERROR) =>
          (gpio_tests.events["reset_button"] \/ gpio_tests'.body_rs)]_vars

====
